---- MODULE Spec2Model ----
(***************************************************************************)
(* Model of the tk-desktop2 websockets protocol engine:                    *)
(*   WebsocketsServer      (websockets/websockets_server.py)               *)
(*   WebsocketsConnection  (websockets/websockets_connection.py)           *)
(*   WebsocketsRequest     (websockets/requests/request.py and subclasses) *)
(*   RequestRunner         (websockets/requests/request_runner.py)         *)
(*   DeferredRequest       (websockets/requests/deferred_request.py)       *)
(*                                                                         *)
(* The external configuration loader (tk-framework-shotgunutils) and the   *)
(* C++ websockets server are the environment: every call into them is      *)
(* recorded as outstanding work and answered later by a separate step.     *)
(***************************************************************************)
EXTENDS Integers, Sequences, FiniteSets, Bags, TLC

(***************************************************************************)
(* Bounds of the model                                                     *)
(***************************************************************************)
NumSockets == 1
MaxSockets == 2
MaxRequests == 2
NumProjects == 1
MaxConfigs == 2
MaxLoads == 2
MaxChanges == 1
MaxTicks == 0

(***************************************************************************)
(* Program constants                                                       *)
(***************************************************************************)
AWAITING_HANDSHAKE == 0
AWAITING_SERVER_ID_REQUEST == 1
AWAITING_ENCRYPTED_REQUEST == 2
WEBSOCKETS_PROTOCOL_VERSION == 2
CONFIG_CHECK_TIMEOUT_SECONDS == 10
CACHING_ERROR == 3

(***************************************************************************)
(* Environment: the identity Shotgun Create is logged in with, the clock   *)
(***************************************************************************)
\* bundle.sgtk.shotgun_url
LoggedInSite == "site"
\* sgtk.util.get_current_user(...)["id"]
CurrentUserId == 42
OtherUserId == 43
\* time.time() when the engine starts, and the step of one clock tick
StartTime == 100
TickStep == 11

\* the sockets of the full protocol, and those of the handshake alone
Sockets == 1..NumSockets
AllSockets == 1..MaxSockets
Projects == 1..NumProjects
\* a project_id payload that is a JSON array or object (not hashable)
UnhashableProject == 0
Origins == {"site", "localhost", "other"}
None == "None"

(***************************************************************************)
(* Messages a client can put on the wire.  wire says how the bytes were    *)
(* produced: "clear" text, or a token encrypted with the key of this       *)
(* server ("ours").  body is the text that was sent or encrypted: the      *)
(* literal probe, text that is not JSON, or a JSON envelope.               *)
(***************************************************************************)
CommandNames ==
    {"none", "bogus", "get_ws_server_id", "get_actions", "execute_action",
     "pick_file_or_directory", "open", "sgc_open_task_board"}

ToolkitCommands == {"get_actions", "execute_action"}

\* the commands whose requests do not need a toolkit context
ImmediateCommands == {"pick_file_or_directory", "open", "sgc_open_task_board"}

Envelope(hasId, ver, cmd, user, paramsOk, project, pc) ==
    [t |-> "json", hasId |-> hasId, ver |-> ver, cmd |-> cmd, user |-> user,
     paramsOk |-> paramsOk, project |-> project, pc |-> pc]

ProbeBody == Envelope(FALSE, 0, "probe", 0, FALSE, 0, 0)
JunkBody == Envelope(FALSE, 0, "junk", 0, FALSE, 0, 0)

\* {"id":n, "command": {"name": ..., "data": {"user": {"entity": {"id": u}}}}}
ServerIdBodies ==
    { Envelope(TRUE, 0, c, u, TRUE, 0, 0) :
        c \in {"get_ws_server_id", "get_actions"},
        u \in {0, CurrentUserId, OtherUserId} }
    \cup {Envelope(FALSE, 0, "get_ws_server_id", CurrentUserId, TRUE, 0, 0)}

\* {"id":n, "protocol_version": v, "command": {"name": ..., "data": {...}}}
GetActionsBodies ==
    { Envelope(TRUE, WEBSOCKETS_PROTOCOL_VERSION, "get_actions", CurrentUserId,
               TRUE, p, 0) : p \in Projects \cup {UnhashableProject} }

\* execute_action names the project's first pipeline configuration
ExecuteActionBodies ==
    { Envelope(TRUE, WEBSOCKETS_PROTOCOL_VERSION, "execute_action",
               CurrentUserId, TRUE, p, 1) : p \in Projects }

PickFileBody ==
    Envelope(TRUE, WEBSOCKETS_PROTOCOL_VERSION, "pick_file_or_directory",
             CurrentUserId, TRUE, 0, 0)

\* {"name": "open", "data": {"filepath": ...}}
OpenBody ==
    Envelope(TRUE, WEBSOCKETS_PROTOCOL_VERSION, "open", CurrentUserId, TRUE, 0, 0)

\* {"name": "sgc_open_task_board", "data": {"project_id": ...}}
OpenTaskBoardBody ==
    Envelope(TRUE, WEBSOCKETS_PROTOCOL_VERSION, "sgc_open_task_board",
             CurrentUserId, TRUE, 0, 0)

\* envelopes that are refused: a required parameter is missing, the command
\* is unknown, there is no "command" key, no "id" key, or another version
FaultyBodies ==
    { Envelope(TRUE, WEBSOCKETS_PROTOCOL_VERSION, c, CurrentUserId, FALSE, 0, 0) :
        c \in ToolkitCommands }
    \cup
    { Envelope(TRUE, WEBSOCKETS_PROTOCOL_VERSION, c, CurrentUserId, TRUE, 0, 0) :
        c \in {"none", "bogus"} }
    \cup
    { Envelope(FALSE, WEBSOCKETS_PROTOCOL_VERSION, "pick_file_or_directory",
               CurrentUserId, TRUE, 0, 0),
      Envelope(TRUE, 1, "pick_file_or_directory", CurrentUserId, TRUE, 0, 0) }

CommandBodies ==
    GetActionsBodies \cup ExecuteActionBodies \cup FaultyBodies
    \cup {PickFileBody, OpenBody, OpenTaskBoardBody}

Messages ==
    { [wire |-> "clear", body |-> b] :
        b \in {ProbeBody, JunkBody, PickFileBody} \cup ServerIdBodies }
    \cup
    { [wire |-> "ours", body |-> b] : b \in CommandBodies \cup {JunkBody} }

(***************************************************************************)
(* State                                                                   *)
(***************************************************************************)
VARIABLES
    sock,               \* transport state of each socket id of the C++ server
    connections,        \* WebsocketsServer._connections: socket id -> connection
    sent,               \* cleartext messages handed to sendTextMessage
    replyCount,         \* encrypted replies (WebsocketsConnection.reply) per request id
    replies,            \* the replies handed to WebsocketsConnection.reply by
                        \* the last step
    received,           \* the socket each request id was received on (0: not yet)
    legacy,             \* server_caps.version < (8, 4, 0): "yes", "no", or
                        \* "unknown" while the code has not looked at it
    site_warning,       \* WebsocketsConnection._legacy_site_warning_displayed
    user_warning,       \* WebsocketsConnection._legacy_user_warning_displayed
    warned_cross_site,  \* WebsocketsServer._has_been_warned_cross_site
    popups,             \* number of modal warnings shown
    nmsg,               \* number of request ids used so far
    outcome,            \* what the last handled message did
    cached_configs,     \* RequestRunner._cached_configs: project -> configs
    last_update_check,  \* RequestRunner._last_update_check
    active_requests,    \* RequestRunner._active_requests
    execCount,          \* execute_with_context invocations per request id
    workers,            \* detached threads that are running, each with the
                        \* request it was started for (bag)
    pendingConfigs,     \* outstanding request_configurations calls (bag)
    pendingCommands,    \* outstanding request_commands calls (bag)
    refreshPending,     \* refresh_shotgun_global_state was called
    loads,              \* configurations_loaded deliveries so far
    changes,            \* configurations_changed signals so far
    now,                \* time.time()
    applied             \* the last call of a function taken on its own, with
                        \* its arguments and what it returned

connVars == <<sock, connections, sent, legacy, site_warning, user_warning,
              warned_cross_site, popups, nmsg, received, outcome>>
runnerVars == <<cached_configs, last_update_check, active_requests, execCount,
                workers, replyCount>>
loaderVars == <<pendingConfigs, pendingCommands, refreshPending, loads,
                changes, now>>
vars == <<connVars, runnerVars, loaderVars, replies, applied>>

MsgIds == 1..MaxRequests

\* outcome records the last call of process_message: the handler that ran
\* (op), the socket, the message as far as the handler read it (msg), the
\* id the client gave it, whether the call raised, whether
\* WebsocketsRequest.create returned a request, whether RequestRunner.execute
\* was called and whether WebsocketsConnection.reply was called before
\* process_message returned
NoOutcome ==
    [op |-> "none", sock |-> 0, msg |-> [wire |-> "none", body |-> JunkBody],
     id |-> 0, raised |-> FALSE, created |-> FALSE, submitted |-> FALSE,
     replied |-> FALSE]

\* no function has been called on its own
NoCall == [fn |-> "none"]

Init ==
    /\ sock = [s \in AllSockets |-> "unused"]
    /\ connections = <<>>
    /\ sent = {}
    /\ replyCount = [i \in MsgIds |-> 0]
    /\ replies = {}
    /\ received = [i \in MsgIds |-> 0]
    /\ legacy = "unknown"
    /\ site_warning = FALSE
    /\ user_warning = FALSE
    /\ warned_cross_site = FALSE
    /\ popups = 0
    /\ nmsg = 0
    /\ outcome = NoOutcome
    /\ cached_configs = <<>>
    /\ last_update_check = 0
    /\ active_requests = <<>>
    /\ execCount = [i \in MsgIds |-> 0]
    /\ workers = EmptyBag
    /\ pendingConfigs = EmptyBag
    /\ pendingCommands = EmptyBag
    /\ refreshPending = FALSE
    /\ loads = 0
    /\ changes = 0
    /\ now = StartTime
    /\ applied = NoCall

(***************************************************************************)
(* DeferredRequest (requests/deferred_request.py)                          *)
(*                                                                         *)
(* registered = FALSE stands for _configurations being None; a tuple is    *)
(* [configuration, commands, error] with None for an unset field.          *)
(***************************************************************************)
DeferredRequest(request) ==
    [request |-> request, registered |-> FALSE, configurations |-> <<>>]

IsPending(tuple) == tuple.commands = None /\ tuple.error = None

can_be_executed(dr) ==
    IF dr.registered /\ Len(dr.configurations) > 0
    THEN \A i \in 1..Len(dr.configurations) : ~IsPending(dr.configurations[i])
    ELSE FALSE

\* a registration that leaves an already registered request as it is
register_configurations_once(dr, configs) ==
    IF dr.registered THEN dr
    ELSE [dr EXCEPT !.registered = TRUE,
                    !.configurations =
                        [i \in 1..Len(configs) |->
                            [configuration |-> configs[i], commands |-> None,
                             error |-> None]]]

register_configurations(dr, configs) ==
    [dr EXCEPT !.registered = TRUE,
               !.configurations =
                   [i \in 1..Len(configs) |->
                       [configuration |-> configs[i], commands |-> None,
                        error |-> None]]]

\* index of the first tuple whose configuration is one of wanted, or 0
FirstIndex(configurations, wanted) ==
    LET hits == {i \in 1..Len(configurations) :
                    configurations[i].configuration \in wanted}
    IN IF hits = {} THEN 0 ELSE CHOOSE i \in hits : \A j \in hits : i <= j

SetTuple(dr, i, commands, error) ==
    IF i = 0 THEN dr
    ELSE [dr EXCEPT !.configurations[i].commands = commands,
                    !.configurations[i].error = error]

register_configurations_failure(dr, reason, invalid_configs) ==
    LET invalid == {invalid_configs[k] : k \in 1..Len(invalid_configs)}
    IN SetTuple(dr, FirstIndex(dr.configurations, invalid), None, reason)

\* a registration of commands that leaves a resolved tuple as it is
register_commands_unless_resolved(dr, config, commands) ==
    LET k == FirstIndex(dr.configurations, {config})
    IN IF k # 0 /\ ~IsPending(dr.configurations[k]) THEN dr
       ELSE SetTuple(dr, k, commands, None)

\* a registration of commands that moves the resolved tuple to the front
register_commands_resolved_first(dr, config, commands) ==
    LET k == FirstIndex(dr.configurations, {config})
        resolved == SetTuple(dr, k, commands, None).configurations
    IN IF k = 0 THEN dr
       ELSE [dr EXCEPT !.configurations =
                <<resolved[k]>> \o SubSeq(resolved, 1, k - 1)
                    \o SubSeq(resolved, k + 1, Len(resolved))]

register_commands(dr, config, commands) ==
    SetTuple(dr, FirstIndex(dr.configurations, {config}), commands, None)

register_commands_failure(dr, config, reason) ==
    SetTuple(dr, FirstIndex(dr.configurations, {config}), None, reason)

(***************************************************************************)
(* Encryption and outbound texts (encryption_handler.py, util.py)          *)
(*                                                                         *)
(* The handler holds the server id it made up and the Fernet session made  *)
(* with the secret the site returned for that id.  A text on the wire is   *)
(* "clear" or a token, named by the secret it was encrypted with; its JSON *)
(* object is kept as the set of its keys and the server id it carries.     *)
(***************************************************************************)
\* EncryptionHandler.__init__, called once by WebsocketsServer.__init__
EncryptionHandler == [unique_server_id |-> "server_id", secret |-> "ours"]

\* the sessions a text may have been encrypted with: the one of this server,
\* one another server made with the same secret, and one with another secret
Sessions ==
    {EncryptionHandler,
     [unique_server_id |-> "other_id", secret |-> "ours"],
     [unique_server_id |-> "third_id", secret |-> "theirs"]}

\* the strings handed to encrypt, and the initialisation vectors Fernet draws
Payloads == {"", "{}", "{\"id\": 1}"}
MaxIV == 2
IVs == 1..MaxIV

\* what Fernet.decrypt raises for a token that was not made with its key
InvalidToken == "cryptography.fernet.InvalidToken"

\* EncryptionHandler.encrypt: the Fernet token of the payload, made with the
\* key of the session and a fresh initialisation vector
encrypt(handler, payload, iv) ==
    [key |-> handler.secret, vector |-> iv, body |-> payload]

\* a decrypt that does not verify the token against the key
decrypt_unverified(handler, token) == token.body

\* EncryptionHandler.decrypt: the payload of a token made with the key of the
\* session, InvalidToken for any other token
decrypt(handler, token) ==
    IF token.key = handler.secret THEN token.body ELSE InvalidToken

\* the dictionaries the server and the connection pass to create_reply
DisconnectData ==
    [keys |-> {"error", "disconnect_reason", "timestamp", "protocol_version"},
     server_id |-> None]

VersionData == [keys |-> {"protocol_version"}, server_id |-> None]

MismatchData ==
    [keys |-> {"error", "error_message", "error_data", "timestamp",
               "protocol_version", "id"},
     server_id |-> None]

ServerIdData(handler) ==
    [keys |-> {"ws_server_id", "timestamp", "protocol_version", "id"},
     server_id |-> handler.unique_server_id]

\* the envelope WebsocketsConnection.reply puts around a payload
ReplyData(handler) ==
    [keys |-> {"ws_server_id", "timestamp", "protocol_version", "id", "reply"},
     server_id |-> handler.unique_server_id]

\* a create_reply that never encrypts
create_reply_in_clear(data, encrypt_fn) ==
    [wire |-> "clear", keys |-> data.keys, server_id |-> data.server_id]

\* util.create_reply: the JSON text of data, encrypted when an encrypt
\* function is given (encrypt_fn is None or the secret of the session)
create_reply(data, encrypt_fn) ==
    [wire |-> IF encrypt_fn = None THEN "clear" ELSE encrypt_fn,
     keys |-> data.keys, server_id |-> data.server_id]

(***************************************************************************)
(* Requests (requests/request.py and the request classes)                  *)
(***************************************************************************)
\* WebsocketsRequest.create: "unsupported", "missing" or "ok"
CreateResult(body) ==
    IF body.cmd \notin ToolkitCommands \cup ImmediateCommands
    THEN "unsupported"
    ELSE IF body.cmd # "pick_file_or_directory" /\ ~body.paramsOk
    THEN "missing"
    ELSE "ok"

\* get_supported_commands: the commands the server lists as supported
get_supported_commands ==
    {"list_supported_commands", "get_actions", "execute_action",
     "pick_file_or_directory", "pick_files_or_directories", "open",
     "sgc_open_task", "sgc_open_task_board", "sgc_open_version_draft"}

\* the command names a payload may carry, and the keys its data may hold
FactoryNames == get_supported_commands \cup {"sgc_open_version", "bogus"}

ParamNames ==
    {"entity_id", "entity_type", "project_id", "name", "title", "pc",
     "entity_ids", "filepath", "task_id", "path", "version_id"}

\* the keys the constructor of each request class looks for, in the order
\* it looks for them
RequiredParams(class) ==
    CASE class = "GetActionsWebsocketsRequest" ->
             <<"entity_id", "entity_type", "project_id">>
      [] class = "ExecuteActionWebsocketsRequest" ->
             <<"name", "title", "pc", "entity_ids", "entity_type",
               "project_id">>
      [] class = "OpenTaskInSGCreateWebsocketsRequest" -> <<"task_id">>
      [] class = "OpenTaskBoardInSGCreateWebsocketsRequest" -> <<"project_id">>
      [] class = "OpenVersionInSGCreateWebsocketsRequest" -> <<"version_id">>
      [] class = "OpenVersionDraftInSGCreateWebsocketsRequest" ->
             <<"task_id", "path">>
      [] class = "OpenFileWebsocketsRequest" -> <<"filepath">>
      [] OTHER -> <<>>

\* the class WebsocketsRequest.create constructs for a command name, None
\* for a name none of its branches tests for
FactoryClass(command_name) ==
    CASE command_name = "get_actions" -> "GetActionsWebsocketsRequest"
      [] command_name = "execute_action" -> "ExecuteActionWebsocketsRequest"
      [] command_name = "sgc_open_task" -> "OpenTaskInSGCreateWebsocketsRequest"
      [] command_name = "sgc_open_task_board" ->
             "OpenTaskBoardInSGCreateWebsocketsRequest"
      [] command_name = "sgc_open_version" ->
             "OpenVersionInSGCreateWebsocketsRequest"
      [] command_name \in {"pick_file_or_directory",
                           "pick_files_or_directories"} ->
             "PickFileOrDirectoryWebsocketsRequest"
      [] command_name = "open" -> "OpenFileWebsocketsRequest"
      [] OTHER -> None

\* the first key of a list that the parameters lack, None when they hold all
FirstMissing(required, parameters) ==
    LET missing == {i \in DOMAIN required : required[i] \notin parameters}
    IN  IF missing = {} THEN None
        ELSE required[CHOOSE i \in missing : \A j \in missing : i <= j]

\* WebsocketsRequest.create for a payload with the given name, with or
\* without a data dictionary, whose data holds the given keys: the class of
\* the request it returns, or the exception it raises and what that names
create(command_name, has_data, parameters) ==
    IF ~has_data
    THEN [class |-> None, raised |-> "KeyError", names |-> "data"]
    ELSE IF FactoryClass(command_name) = None
    THEN [class |-> None, raised |-> "RuntimeError", names |-> command_name]
    ELSE IF FactoryClass(command_name) = "PickFileOrDirectoryWebsocketsRequest"
    THEN [class |-> FactoryClass(command_name), raised |-> None,
          names |-> None]
    ELSE LET missing == FirstMissing(RequiredParams(FactoryClass(command_name)),
                                     parameters)
         IN  IF missing # None
             THEN [class |-> None, raised |-> "ValueError", names |-> missing]
             ELSE [class |-> FactoryClass(command_name), raised |-> None,
                   names |-> None]

\* a request that does not keep the id of its message
RequestWithFixedId(s, id, body) ==
    [id |-> 1, sock |-> s, cmd |-> body.cmd,
     requires_toolkit |-> body.cmd \in ToolkitCommands,
     project_id |-> body.project, entity_type |-> "Shot", entity_id |-> 1,
     linked_entity_type |-> None, pc |-> body.pc]

\* WebsocketsRequest.__init__: the request keeps the connection and the id
Request(s, id, body) ==
    [id |-> id, sock |-> s, cmd |-> body.cmd,
     requires_toolkit |-> body.cmd \in ToolkitCommands,
     project_id |-> body.project, entity_type |-> "Shot", entity_id |-> 1,
     linked_entity_type |-> None, pc |-> body.pc]

\* the command lists a configuration can report; "[c]" holds the command
\* an execute_action request names, "[]" does not
CommandLists == {"[]", "[c]"}

\* the reason a configuration gives when its commands cannot be loaded
ErrorTexts == <<"err1", "err2", "err3", "err4">>

Reason(config) == ErrorTexts[config.pc]

\* "\n".join(errors)
RECURSIVE JoinLines(_)
JoinLines(errors) ==
    IF errors = <<>> THEN ""
    ELSE IF Len(errors) = 1 THEN errors[1]
    ELSE errors[1] \o "\n" \o JoinLines(Tail(errors))

\* the name of a pipeline configuration, None for a site without one
pipeline_configuration_name(config) ==
    IF config.pc = 1 THEN None ELSE "Dev"

\* the name get_actions reports a configuration under
ConfigName(config) ==
    IF pipeline_configuration_name(config) = None THEN "Primary"
    ELSE pipeline_configuration_name(config)

\* GetActionsWebsocketsRequest.execute_with_context
GetActionsExecute(request, configurations) ==
    LET errors == SelectSeq([i \in 1..Len(configurations) |->
                                configurations[i].error],
                            LAMBDA e : e # None)
    IN IF Len(errors) > 0
       THEN [raised |-> FALSE, reply |-> TRUE, worker |-> FALSE,
             payload |-> "status", retcode |-> CACHING_ERROR,
             err |-> JoinLines(errors), pcs |-> <<>>]
       ELSE [raised |-> FALSE, reply |-> TRUE, worker |-> FALSE,
             payload |-> "actions", retcode |-> 0, err |-> "",
             pcs |-> [i \in 1..Len(configurations) |->
                         ConfigName(configurations[i].configuration)]]

\* ExecuteActionWebsocketsRequest.execute_with_context
ExecuteActionExecute(request, configurations) ==
    LET named == {i \in 1..Len(configurations) :
                      configurations[i].configuration.pc = request.pc}
        \* iterating config["commands"] when it is None raises TypeError
        typeError == \E i \in named : configurations[i].commands = None
        resolved == \E i \in named : configurations[i].commands = "[c]"
    IN IF typeError \/ ~resolved
       THEN [raised |-> TRUE, reply |-> FALSE, worker |-> FALSE,
             payload |-> "none", retcode |-> 0, err |-> "", pcs |-> <<>>]
       ELSE [raised |-> FALSE, reply |-> FALSE, worker |-> TRUE,
             payload |-> "none", retcode |-> 0, err |-> "", pcs |-> <<>>]

\* the ExternalCommand objects a configuration can report: one whose system
\* name differs from its display name, one whose names agree
MayaCommand == [system_name |-> "maya_2018", display_name |-> "Maya"]
NukeCommand == [system_name |-> "Nuke", display_name |-> "Nuke"]
NoCommand == [system_name |-> None, display_name |-> None]

ExternalCommandLists ==
    {<<>>, <<MayaCommand>>, <<NukeCommand>>, <<MayaCommand, NukeCommand>>}

\* the entry get_actions makes for a command
ActionEntry(command) ==
    [name |-> command.system_name, title |-> command.display_name]

\* the loop of GetActionsWebsocketsRequest.execute_with_context over the
\* tuples: response["pcs"] gets the name of every tuple, response["actions"]
\* is a dictionary keyed by that name
RECURSIVE GetActionsResponse(_, _)
GetActionsResponse(associated_commands, response) ==
    IF associated_commands = <<>> THEN response
    ELSE LET config == Head(associated_commands)
             config_name == ConfigName(config.configuration)
             actions == [i \in 1..Len(config.commands) |->
                            ActionEntry(config.commands[i])]
         IN  GetActionsResponse(
                 Tail(associated_commands),
                 [pcs |-> Append(response.pcs, config_name),
                  actions |-> [n \in DOMAIN response.actions \cup {config_name}
                                  |-> IF n = config_name THEN actions
                                      ELSE response.actions[n]]])

\* the first command of a list with the given system name, or other
FirstNamed(commands, system_name, other) ==
    LET hits == {i \in 1..Len(commands) :
                    commands[i].system_name = system_name}
    IN  IF hits = {} THEN other
        ELSE commands[CHOOSE i \in hits : \A j \in hits : i <= j]

\* the loop of ExecuteActionWebsocketsRequest.execute_with_context that sets
\* self._resolved_command: in every tuple of the named configuration, the
\* first command whose system name is the title of the request
RECURSIVE ResolveCommand(_, _, _)
ResolveCommand(request, associated_commands, resolved) ==
    IF associated_commands = <<>> THEN resolved
    ELSE LET config == Head(associated_commands)
         IN  ResolveCommand(
                 request, Tail(associated_commands),
                 IF ConfigName(config.configuration) = request.pc
                 THEN FirstNamed(config.commands, request.title, resolved)
                 ELSE resolved)

ExecuteWithContext(request, configurations) ==
    IF request.cmd = "get_actions"
    THEN GetActionsExecute(request, configurations)
    ELSE ExecuteActionExecute(request, configurations)

\* what execute_with_context leaves behind when it has not been called
NotInvoked ==
    [raised |-> FALSE, reply |-> FALSE, worker |-> FALSE, payload |-> "none",
     retcode |-> 0, err |-> "", pcs |-> <<>>]

\* an execute that does not ask whether the request can be executed
DeferredRequestExecuteUnchecked(dr) ==
    [raised |-> None, invoked |-> TRUE, dr |-> dr,
     result |-> ExecuteWithContext(dr.request, dr.configurations)]

\* DeferredRequest.execute: RuntimeError unless the request can be executed,
\* else execute_with_context of the wrapped request on the tuples
DeferredRequestExecute(dr) ==
    IF ~can_be_executed(dr)
    THEN [raised |-> "RuntimeError", invoked |-> FALSE, dr |-> dr,
          result |-> NotInvoked]
    ELSE [raised |-> None, invoked |-> TRUE, dr |-> dr,
          result |-> ExecuteWithContext(dr.request, dr.configurations)]

(***************************************************************************)
(* RequestRunner (requests/request_runner.py)                              *)
(*                                                                         *)
(* The handlers are written as functions of the runner's state R, a record *)
(* of the runner and loader variables plus the flag raised (an exception   *)
(* left the handler).                                                      *)
(***************************************************************************)
RunnerState ==
    [cached_configs |-> cached_configs, last_update_check |-> last_update_check,
     active_requests |-> active_requests, execCount |-> execCount,
     workers |-> workers, replyCount |-> replyCount, replies |-> {},
     pendingConfigs |-> pendingConfigs, pendingCommands |-> pendingCommands,
     refreshPending |-> refreshPending, raised |-> FALSE]

SetRunner(R) ==
    /\ cached_configs' = R.cached_configs
    /\ last_update_check' = R.last_update_check
    /\ active_requests' = R.active_requests
    /\ execCount' = R.execCount
    /\ workers' = R.workers
    /\ replyCount' = R.replyCount
    /\ replies' = R.replies
    /\ pendingConfigs' = R.pendingConfigs
    /\ pendingCommands' = R.pendingCommands
    /\ refreshPending' = R.refreshPending

\* the text WebsocketsConnection.reply hands to sendTextMessage: the
\* envelope, encrypted with the session of the connection of socket s (a
\* connection that has left the table still holds the handler it was
\* constructed with, the server's)
ReplyText(s) ==
    LET handler == IF s \in DOMAIN connections
                   THEN connections[s].encryption_handler
                   ELSE EncryptionHandler
    IN create_reply(ReplyData(handler), handler.secret)

\* WebsocketsConnection.reply: one encrypted reply for request id, handed to
\* sendTextMessage for the socket s of the connection; via tells who called
\* it: the except block of the connection ("error"), execute ("execute"),
\* execute_with_context ("context") or a detached thread ("worker");
\* context is the list of tuples execute_with_context was called with
Reply(R, s, id, via, payload, retcode, err, context, pcs) ==
    [R EXCEPT !.replyCount[id] = @ + 1,
              !.replies = @ \cup {[id |-> id, sock |-> s, via |-> via,
                                   payload |-> payload, retcode |-> retcode,
                                   err |-> err, context |-> context,
                                   pcs |-> pcs, text |-> ReplyText(s)]}]

\* ExternalConfigurationLoader.request_configurations(project_id)
request_configurations(R, project_id) ==
    IF project_id \in Projects
    THEN [R EXCEPT !.pendingConfigs = @ (+) SetToBag({project_id})]
    ELSE R

\* ExternalConfiguration.request_commands for every config of the list
RECURSIVE request_commands(_, _, _)
request_commands(R, configs, dr) ==
    IF configs = <<>> THEN R
    ELSE request_commands(
             [R EXCEPT !.pendingCommands = @ (+) SetToBag({
                 [config |-> Head(configs),
                  project_id |-> dr.request.project_id,
                  entity_type |-> dr.request.entity_type,
                  entity_id |-> dr.request.entity_id,
                  linked_entity_type |-> dr.request.linked_entity_type]})],
             Tail(configs), dr)

\* RequestRunner._execute_ready_requests
RECURSIVE ExecuteLoop(_, _, _)
ExecuteLoop(R, i, remaining) ==
    IF i > Len(R.active_requests)
    THEN [R EXCEPT !.active_requests = remaining]
    ELSE LET dr == R.active_requests[i]
             id == dr.request.id
             res == ExecuteWithContext(dr.request, dr.configurations)
             R1 == [R EXCEPT !.execCount[id] = @ + 1]
             R2 == IF res.reply
                   THEN Reply(R1, dr.request.sock, id, "context", res.payload,
                              res.retcode, res.err, dr.configurations,
                              res.pcs)
                   ELSE IF res.worker
                   THEN [R1 EXCEPT !.workers = @ (+) SetToBag({dr.request})]
                   ELSE R1
         IN IF can_be_executed(dr)
            THEN IF res.raised
                 THEN [R2 EXCEPT !.raised = TRUE]
                 ELSE ExecuteLoop(R2, i + 1, remaining)
            ELSE ExecuteLoop(R, i + 1, Append(remaining, dr))

execute_ready_requests(R) == ExecuteLoop(R, 1, <<>>)

\* what request.execute() of a request without context can find: the
\* status OpenTaskBoardInSGCreateWebsocketsRequest.execute replies with
ExecuteResults(cmd) == IF cmd = "sgc_open_task_board" THEN {0, 1} ELSE {0}

\* a check that finds the cache out of date as soon as any time has passed
cache_out_of_date_at_once(R, t) == (t - R.last_update_check) > 0

\* cache_out_of_date in RequestRunner.execute, at time t
cache_out_of_date(R, t) ==
    (t - R.last_update_check) > CONFIG_CHECK_TIMEOUT_SECONDS

\* a submission that wraps every request in a DeferredRequest
RunnerExecuteDeferringAll(R, request, t, res) ==
    request_configurations(
        [R EXCEPT !.active_requests = Append(@, DeferredRequest(request))],
        request.project_id)

\* RequestRunner.execute; t is what time.time() returns, res what
\* request.execute() finds
RunnerExecute(R, request, t, res) ==
    IF ~request.requires_toolkit
    THEN \* request.execute()
         IF request.cmd = "open"
         THEN \* OpenFileWebsocketsRequest.execute starts a thread
              [R EXCEPT !.workers = @ (+) SetToBag({request})]
         ELSE IF request.cmd = "sgc_open_task_board"
         THEN Reply(R, request.sock, request.id, "execute", "status", res, "",
                    <<>>, <<>>)
         ELSE \* the file dialog is modal, the selected files are the reply
              Reply(R, request.sock, request.id, "execute", "files", 0, "",
                    <<>>, <<>>)
    ELSE
    LET dr == DeferredRequest(request)
        R1 == [R EXCEPT !.active_requests = Append(@, dr)]
    IN IF request.project_id = UnhashableProject
       THEN \* "project_id in self._cached_configs" raises TypeError
            [R1 EXCEPT !.raised = TRUE]
       ELSE IF request.project_id \in DOMAIN R1.cached_configs
       THEN LET configs == R1.cached_configs[request.project_id]
                R2 == IF cache_out_of_date(R1, t)
                      THEN [R1 EXCEPT !.last_update_check = t,
                                      !.refreshPending = TRUE]
                      ELSE R1
                dr2 == register_configurations(dr, configs)
                R3 == [R2 EXCEPT
                          !.active_requests[Len(R2.active_requests)] = dr2]
            IN request_commands(R3, configs, dr2)
       ELSE request_configurations(R1, request.project_id)

\* RequestRunner._on_configurations_changed
RECURSIVE RequestAll(_, _)
RequestAll(R, requests) ==
    IF requests = <<>> THEN R
    ELSE RequestAll(request_configurations(R, Head(requests).request.project_id),
                    Tail(requests))

on_configurations_changed(R) == RequestAll(R, R.active_requests)

\* RequestRunner._on_configurations_loaded
RECURSIVE RegisterAndRequest(_, _, _, _)
RegisterAndRequest(R, i, project_id, configs) ==
    IF i > Len(R.active_requests) THEN R
    ELSE LET dr == R.active_requests[i]
         IN IF dr.request.project_id = project_id
            THEN LET dr2 == register_configurations(dr, configs)
                     R2 == [R EXCEPT !.active_requests[i] = dr2]
                 IN RegisterAndRequest(request_commands(R2, configs, dr2),
                                       i + 1, project_id, configs)
            ELSE RegisterAndRequest(R, i + 1, project_id, configs)

\* a handler that caches the valid configurations of any delivered list
on_configurations_loaded_caching_valid(R, project_id, configs) ==
    RegisterAndRequest(
        [R EXCEPT !.cached_configs =
            [p \in DOMAIN @ \cup {project_id} |->
                IF p = project_id THEN SelectSeq(configs, LAMBDA c : c.valid)
                ELSE @[p]]],
        1, project_id, configs)

\* a handler that registers the configurations without caching them
on_configurations_loaded_uncached(R, project_id, configs) ==
    RegisterAndRequest(R, 1, project_id, configs)

on_configurations_loaded(R, project_id, configs) ==
    LET invalid_configs == SelectSeq(configs, LAMBDA c : ~c.valid)
        reason == "invalid"
    IN IF invalid_configs # <<>>
       THEN execute_ready_requests(
                [R EXCEPT !.active_requests =
                    [i \in 1..Len(@) |->
                        IF @[i].request.project_id = project_id
                        THEN register_configurations_failure(
                                 register_configurations(@[i], invalid_configs),
                                 reason, invalid_configs)
                        ELSE @[i]]])
       ELSE RegisterAndRequest(
                [R EXCEPT !.cached_configs =
                    [p \in DOMAIN @ \cup {project_id} |->
                        IF p = project_id THEN configs ELSE @[p]]],
                1, project_id, configs)

\* the loop of _on_commands_loaded / _on_commands_load_failed: a request
\* whose _configurations is still None makes the loop raise TypeError
RECURSIVE ResolveLoop(_, _, _, _, _, _, _)
ResolveLoop(R, i, project_id, entity_type, config, commands, error) ==
    IF i > Len(R.active_requests) THEN R
    ELSE LET dr == R.active_requests[i]
         IN IF dr.request.project_id = project_id
               /\ dr.request.entity_type = entity_type
            THEN IF ~dr.registered
                 THEN [R EXCEPT !.raised = TRUE]
                 ELSE ResolveLoop(
                          [R EXCEPT !.active_requests[i] =
                              IF error = None
                              THEN register_commands(dr, config, commands)
                              ELSE register_commands_failure(dr, config, error)],
                          i + 1, project_id, entity_type, config, commands, error)
            ELSE ResolveLoop(R, i + 1, project_id, entity_type, config,
                             commands, error)

on_commands_loaded(R, project_id, entity_type, config, commands) ==
    LET R2 == ResolveLoop(R, 1, project_id, entity_type, config, commands, None)
    IN IF R2.raised THEN R2 ELSE execute_ready_requests(R2)

on_commands_load_failed(R, project_id, entity_type, config, reason) ==
    LET R2 == ResolveLoop(R, 1, project_id, entity_type, config, None, reason)
    IN IF R2.raised THEN R2 ELSE execute_ready_requests(R2)

(***************************************************************************)
(* WebsocketsServer (websockets_server.py)                                 *)
(***************************************************************************)
\* what reading server_caps.version can find: the version of the site does
\* not change once it has been seen
LegacyReadings == IF legacy = "unknown" THEN {"yes", "no"} ELSE {legacy}

\* a connection that makes an encryption session of its own
ConnectionWithOwnSession(origin) ==
    [state |-> AWAITING_HANDSHAKE, origin_site |-> origin,
     encryption_handler |-> [unique_server_id |-> origin, secret |-> origin]]

\* WebsocketsConnection.__init__ as called by WebsocketsServer._new_connection
\* with the encryption handler of the server
Connection(origin) ==
    [state |-> AWAITING_HANDSHAKE, origin_site |-> origin,
     encryption_handler |-> EncryptionHandler]

\* sendTextMessage(socket_id, text): kind names the call that sent the text
Send(s, kind, id, text) ==
    sent' = sent \cup {[sock |-> s, kind |-> kind, id |-> id,
                        wire |-> text.wire, keys |-> text.keys,
                        server_id |-> text.server_id]}

\* the connection error codes of constants.py
CONNECTION_REFUSED_USER_MISMATCH == "CONNECTION_REFUSED_USER_MISMATCH"
CONNECTION_REFUSED_SITE_MISMATCH == "CONNECTION_REFUSED_SITE_MISMATCH"

\* the error_code in the error_data of a text the connection sent
ErrorCode(kind) ==
    IF kind = "site_mismatch" THEN CONNECTION_REFUSED_SITE_MISMATCH
    ELSE IF kind = "user_mismatch" THEN CONNECTION_REFUSED_USER_MISMATCH
    ELSE None

\* a refusal that leaves the socket open
keepConnection(s) == sock' = sock

\* QWebSocketServer.closeConnection: no message of the socket is delivered
\* afterwards; the connectionClosed signal follows as a separate step
closeConnection(s) == sock' = [sock EXCEPT ![s] = "closing"]

\* WebsocketsServer._new_connection.  origin is the origin header of the
\* request.  The call to the WebsocketsConnection constructor in the source
\* does not supply the origin_site the constructor requires, so the value
\* the connection holds is not determined by the source: origin_site is
\* any origin.
NewConnection(s, origin, origin_site) ==
    /\ sock[s] = "unused"
    /\ IF origin # LoggedInSite
       THEN /\ Send(s, "disconnect", 0, create_reply(DisconnectData, None))
            /\ closeConnection(s)
            /\ \E v \in LegacyReadings :
                   /\ legacy' = v
                   /\ IF ~warned_cross_site /\ v = "yes"
                      THEN popups' = popups + 1 /\ warned_cross_site' = TRUE
                      ELSE UNCHANGED <<popups, warned_cross_site>>
            /\ UNCHANGED connections
       ELSE /\ sock' = [sock EXCEPT ![s] = "open"]
            /\ UNCHANGED legacy
            /\ connections' =
                   [c \in DOMAIN connections \cup {s} |->
                       IF c = s THEN Connection(origin_site) ELSE connections[c]]
            /\ UNCHANGED <<sent, popups, warned_cross_site>>
    /\ outcome' = NoOutcome
    /\ UNCHANGED applied
    /\ UNCHANGED <<site_warning, user_warning, nmsg, received>>
    /\ replies' = {}
    /\ UNCHANGED <<runnerVars, loaderVars>>

\* a close handler that also drops the requests of the socket
ConnectionClosedCancelling(s) ==
    /\ sock[s] \in {"open", "closing"}
    /\ sock' = [sock EXCEPT ![s] = "closed"]
    /\ connections' = [c \in DOMAIN connections \ {s} |-> connections[c]]
    /\ active_requests' = SelectSeq(active_requests,
                                    LAMBDA dr : dr.request.sock # s)
    /\ outcome' = NoOutcome
    /\ UNCHANGED applied
    /\ replies' = {}
    /\ UNCHANGED <<sent, legacy, site_warning, user_warning, warned_cross_site,
                   popups, nmsg, received>>
    /\ UNCHANGED <<cached_configs, last_update_check, execCount, workers,
                   replyCount, loaderVars>>

\* a close handler that empties the connection table
ConnectionClosedDroppingAll(s) ==
    /\ sock[s] \in {"open", "closing"}
    /\ sock' = [sock EXCEPT ![s] = "closed"]
    /\ connections' = <<>>
    /\ outcome' = NoOutcome
    /\ UNCHANGED applied
    /\ UNCHANGED <<sent, legacy, site_warning, user_warning, warned_cross_site,
                   popups, nmsg, received>>
    /\ replies' = {}
    /\ UNCHANGED <<runnerVars, loaderVars>>

\* signal connectionClosed -> WebsocketsServer._connection_closed, after
\* closeConnection or when the client closes the socket
ConnectionClosed(s) ==
    /\ sock[s] \in {"open", "closing"}
    /\ sock' = [sock EXCEPT ![s] = "closed"]
    /\ connections' = [c \in DOMAIN connections \ {s} |-> connections[c]]
    /\ outcome' = NoOutcome
    /\ UNCHANGED applied
    /\ UNCHANGED <<sent, legacy, site_warning, user_warning, warned_cross_site,
                   popups, nmsg, received>>
    /\ replies' = {}
    /\ UNCHANGED <<runnerVars, loaderVars>>

(***************************************************************************)
(* WebsocketsConnection (websockets_connection.py)                         *)
(***************************************************************************)
Outcome(op, s, m, id, raised, created, submitted, replied) ==
    [op |-> op, sock |-> s, msg |-> m, id |-> id, raised |-> raised,
     created |-> created, submitted |-> submitted, replied |-> replied]

\* text that failed to decrypt or to parse is not looked into any further
Unread(m) == [wire |-> m.wire, body |-> JunkBody]

\* an envelope of which only protocol_version was read
VersionOnly(m) ==
    [wire |-> m.wire, body |-> Envelope(FALSE, m.body.ver, "none", 0, FALSE, 0, 0)]

\* a decrypt that lets every text through
DecryptsAnything(m) == TRUE

\* EncryptionHandler.decrypt succeeds on tokens made with the shared secret
Decrypts(m) == m.wire = "ours"

\* a version check that lets every envelope through
AnyVersionAccepted(body) == TRUE

\* message_obj.get("protocol_version") == WEBSOCKETS_PROTOCOL_VERSION
VersionAccepted(body) == body.ver = WEBSOCKETS_PROTOCOL_VERSION

\* a state change that always ends in the last state
SetStateToLast(s, st) ==
    connections' = [connections EXCEPT ![s].state = AWAITING_ENCRYPTED_REQUEST]

SetState(s, st) == connections' = [connections EXCEPT ![s].state = st]

\* util.parse_json applied to the text of the message
ParsesAsJson(body) == body.cmd \notin {"probe", "junk"}

\* WebsocketsConnection.localhost_re
request_is_localhost(origin) == origin = "localhost"

\* a site comparison that lets every origin through
request_is_anysite(origin) == TRUE

\* self._origin_site == self._bundle.sgtk.shotgun_url
request_is_shotgunsite(origin) == origin = LoggedInSite

\* WebsocketsConnection._handle_protocol_handshake_request
HandleProtocolHandshake(s, m, id) ==
    /\ IF m.wire = "clear" /\ m.body = ProbeBody
       THEN /\ Send(s, "protocol_version", 0,
                    create_reply(VersionData, None))
            /\ SetState(s, AWAITING_SERVER_ID_REQUEST)
            /\ outcome' = Outcome("handshake", s, m, id, FALSE, FALSE, FALSE, FALSE)
       ELSE /\ outcome' = Outcome("handshake", s, m, id, TRUE, FALSE, FALSE,
                                 FALSE)
            /\ UNCHANGED <<sent, connections>>
    /\ UNCHANGED <<sock, legacy, site_warning, user_warning, popups, nmsg, received>>
    /\ replies' = {}
    /\ UNCHANGED <<runnerVars, pendingConfigs, pendingCommands, refreshPending>>

\* WebsocketsConnection._handle_server_id_request
HandleServerIdRequest(s, m, id) ==
    LET body == m.body
        origin == connections[s].origin_site
        \* json.loads fails on text that is not JSON, as a token is
        unparsed == m.wire # "clear" \/ ~ParsesAsJson(body)
        malformed == unparsed \/ ~body.hasId \/ body.user = 0
        site_ok == request_is_localhost(origin) \/ request_is_shotgunsite(origin)
        user_ok == body.user = CurrentUserId
        Raise == /\ outcome' = Outcome("server_id", s,
                                       IF unparsed THEN Unread(m) ELSE m, id,
                                       TRUE, FALSE, FALSE, FALSE)
                 /\ UNCHANGED <<sent, connections, sock, legacy, site_warning,
                                user_warning, popups>>
    IN
    /\ IF malformed THEN Raise
       ELSE IF ~site_ok
       THEN /\ \E v \in LegacyReadings :
                   /\ legacy' = v
                   /\ IF v = "yes"
                      THEN /\ IF ~site_warning
                              THEN popups' = popups + 1 /\ site_warning' = TRUE
                              ELSE UNCHANGED <<popups, site_warning>>
                           /\ UNCHANGED sent
                      ELSE /\ Send(s, "site_mismatch", id,
                                   create_reply(MismatchData, None))
                           /\ UNCHANGED <<popups, site_warning>>
            /\ closeConnection(s)
            /\ outcome' = Outcome("server_id", s, m, id, FALSE, FALSE, FALSE, FALSE)
            /\ UNCHANGED <<connections, user_warning>>
       ELSE IF ~user_ok
       THEN /\ \E v \in LegacyReadings :
                   /\ legacy' = v
                   /\ IF v = "yes"
                      THEN /\ IF ~user_warning
                              THEN popups' = popups + 1 /\ user_warning' = TRUE
                              ELSE UNCHANGED <<popups, user_warning>>
                           /\ UNCHANGED sent
                      ELSE /\ Send(s, "user_mismatch", id,
                                   create_reply(MismatchData, None))
                           /\ UNCHANGED <<popups, user_warning>>
            /\ closeConnection(s)
            /\ outcome' = Outcome("server_id", s, m, id, FALSE, FALSE, FALSE, FALSE)
            /\ UNCHANGED <<connections, site_warning>>
       ELSE IF body.cmd = "get_ws_server_id"
       THEN /\ Send(s, "ws_server_id", id,
                    create_reply(ServerIdData(connections[s].encryption_handler),
                                 None))
            /\ SetState(s, AWAITING_ENCRYPTED_REQUEST)
            /\ outcome' = Outcome("server_id", s, m, id, FALSE, FALSE, FALSE, FALSE)
            /\ UNCHANGED <<sock, legacy, site_warning, user_warning, popups>>
       ELSE Raise
    /\ replies' = {}
    /\ UNCHANGED <<nmsg, received, runnerVars, pendingConfigs, pendingCommands,
                   refreshPending>>

\* WebsocketsConnection._handle_encrypted_request
HandleEncryptedRequest(s, m, id, t) ==
    LET body == m.body
        unparsed == ~Decrypts(m) \/ ~ParsesAsJson(body)
        wrong_version == ~VersionAccepted(body)
        \* KeyError for "id" is raised again by the except block
        rejected == unparsed \/ wrong_version \/ ~body.hasId
        read == IF unparsed THEN Unread(m)
                ELSE IF wrong_version THEN VersionOnly(m)
                ELSE m
        request == Request(s, id, body)
    IN
    /\ IF rejected
       THEN /\ outcome' = Outcome("encrypted", s, read, id, TRUE, FALSE, FALSE,
                                  FALSE)
            /\ replies' = {}
            /\ UNCHANGED <<sent, nmsg, received, runnerVars, pendingConfigs,
                           pendingCommands, refreshPending>>
       ELSE \* the message is answered or becomes a request: its id is in use
            /\ nmsg < MaxRequests
            /\ nmsg' = nmsg + 1
            /\ received' = [received EXCEPT ![id] = s]
            /\ IF body.cmd = "none" \/ CreateResult(body) # "ok"
               THEN /\ SetRunner(Reply(RunnerState, s, id, "error", "status",
                                       -1, "error", <<>>, <<>>))
                    /\ Send(s, "error", id, ReplyText(s))
                    /\ outcome' = Outcome("encrypted", s, m, id, FALSE, FALSE,
                                          FALSE, TRUE)
               ELSE \E res \in ExecuteResults(body.cmd) :
                        LET R == RunnerExecute(RunnerState, request, t, res)
                        IN IF R.raised
                           THEN /\ SetRunner(Reply(R, s, id, "error", "status",
                                                   -1, "error", <<>>, <<>>))
                                /\ Send(s, "error", id, ReplyText(s))
                                /\ outcome' = Outcome("encrypted", s, m, id,
                                                      FALSE, TRUE, TRUE, TRUE)
                           ELSE /\ SetRunner(R)
                                /\ UNCHANGED sent
                                /\ outcome' = Outcome("encrypted", s, m, id,
                                                      FALSE, TRUE, TRUE, FALSE)
    /\ UNCHANGED <<sock, connections, legacy, site_warning, user_warning,
                   popups>>

\* a dispatch without the AWAITING_SERVER_ID_REQUEST branch
HandlerSkipsServerId(state) ==
    IF state = AWAITING_HANDSHAKE THEN "handshake" ELSE "encrypted"

\* a dispatch that never leaves the first branch
HandlerAlwaysHandshake(state) == "handshake"

\* a dispatch that ignores _state
HandlerAlwaysEncrypted(state) == "encrypted"

\* the dispatch on _state in WebsocketsConnection.process_message
Handler(state) ==
    IF state = AWAITING_HANDSHAKE THEN "handshake"
    ELSE IF state = AWAITING_SERVER_ID_REQUEST THEN "server_id"
    ELSE "encrypted"

\* the message makes RequestRunner.execute read the clock: the time that
\* has passed since the last event is observed nowhere else
ReadsClock(s, m) ==
    /\ connections[s].state = AWAITING_ENCRYPTED_REQUEST
    /\ m.wire = "ours"
    /\ m.body \in GetActionsBodies \cup ExecuteActionBodies
    /\ m.body.project \in DOMAIN cached_configs

\* WebsocketsServer._process_message_wrapper, _process_message and
\* WebsocketsConnection.process_message; the wrapper logs what is raised.
\* The client numbers the message with the lowest id not yet in use; dt is
\* the time that has passed since the clock was last read.
ProcessMessage(s, m, dt) ==
    /\ sock[s] = "open"
    /\ s \in DOMAIN connections
    /\ now + dt <= StartTime + MaxTicks * TickStep
    /\ dt > 0 => ReadsClock(s, m)
    /\ now' = now + dt
    /\ LET id == nmsg + 1
           handler == Handler(connections[s].state)
       IN IF handler = "handshake"
          THEN HandleProtocolHandshake(s, m, id)
          ELSE IF handler = "server_id"
          THEN HandleServerIdRequest(s, m, id)
          ELSE HandleEncryptedRequest(s, m, id, now')
    /\ UNCHANGED <<warned_cross_site, loads, changes, applied>>

\* WebsocketsServer._process_message for a socket id that is not in the
\* connection table: a text that was on its way when the server refused
\* the socket and asked for it to be closed.  RuntimeError is raised and
\* logged by the wrapper.
ProcessUnknownSocket(s, m) ==
    /\ sock[s] = "closing"
    /\ s \notin DOMAIN connections
    /\ outcome' = Outcome("unknown_socket", s, Unread(m), nmsg + 1, TRUE, FALSE,
                          FALSE, FALSE)
    /\ replies' = {}
    /\ UNCHANGED applied
    /\ UNCHANGED <<sock, connections, sent, legacy, site_warning, user_warning,
                   warned_cross_site, popups, nmsg, received>>
    /\ UNCHANGED <<runnerVars, loaderVars>>

(***************************************************************************)
(* The configuration loader and the worker threads answering               *)
(***************************************************************************)
\* an ExternalConfiguration object; every delivery creates new objects
Config(project_id, pc, gen, valid) ==
    [project_id |-> project_id, pc |-> pc, gen |-> gen, valid |-> valid]

\* the lists one configurations_loaded signal can carry for a project
ConfigLists(project_id, gen) ==
    UNION { { [i \in 1..n |-> Config(project_id, i, gen, v[i])] :
                v \in [1..n -> BOOLEAN] } : n \in 0..MaxConfigs }

\* signal configurations_loaded -> RequestRunner._on_configurations_loaded
ConfigurationsLoaded(project_id, configs) ==
    /\ BagIn(project_id, pendingConfigs)
    /\ loads < MaxLoads
    /\ loads' = loads + 1
    /\ SetRunner(on_configurations_loaded(
           [RunnerState EXCEPT !.pendingConfigs = @ (-) SetToBag({project_id})],
           project_id, configs))
    /\ outcome' = NoOutcome
    /\ UNCHANGED applied
    /\ UNCHANGED <<sock, connections, sent, legacy, site_warning, user_warning,
                   warned_cross_site, popups, nmsg, received, changes, now>>

\* signal configurations_changed -> RequestRunner._on_configurations_changed;
\* the loader emits it when a refresh of the global state finds a change
ConfigurationsChanged ==
    /\ refreshPending
    /\ changes < MaxChanges
    /\ changes' = changes + 1
    /\ SetRunner(on_configurations_changed(
           [RunnerState EXCEPT !.refreshPending = FALSE]))
    /\ outcome' = NoOutcome
    /\ UNCHANGED applied
    /\ UNCHANGED <<sock, connections, sent, legacy, site_warning, user_warning,
                   warned_cross_site, popups, nmsg, received, loads, now>>

\* signal commands_loaded -> RequestRunner._on_commands_loaded
CommandsLoaded(call, commands) ==
    /\ BagIn(call, pendingCommands)
    /\ SetRunner(on_commands_loaded(
           [RunnerState EXCEPT !.pendingCommands = @ (-) SetToBag({call})],
           call.project_id, call.entity_type, call.config, commands))
    /\ outcome' = NoOutcome
    /\ UNCHANGED applied
    /\ UNCHANGED <<sock, connections, sent, legacy, site_warning, user_warning,
                   warned_cross_site, popups, nmsg, received, loads, changes, now>>

\* signal commands_load_failed -> RequestRunner._on_commands_load_failed
CommandsLoadFailed(call) ==
    /\ BagIn(call, pendingCommands)
    /\ SetRunner(on_commands_load_failed(
           [RunnerState EXCEPT !.pendingCommands = @ (-) SetToBag({call})],
           call.project_id, call.entity_type, call.config,
           Reason(call.config)))
    /\ outcome' = NoOutcome
    /\ UNCHANGED applied
    /\ UNCHANGED <<sock, connections, sent, legacy, site_warning, user_warning,
                   warned_cross_site, popups, nmsg, received, loads, changes, now>>

\* what the payload of a detached thread can find: the launched command runs
\* ("ok") or fails ("failed"); the path to open may not exist ("notfound")
WorkerResults(cmd) ==
    IF cmd = "open" THEN {"ok", "failed", "notfound"} ELSE {"ok", "failed"}

\* a thread boundary that swallows the failure of the launched command
WorkerFinishSwallowingFailure(w, result) ==
    /\ BagIn(w, workers)
    /\ LET R == [RunnerState EXCEPT !.workers = @ (-) SetToBag({w})]
       IN IF result # "ok"
          THEN SetRunner(R)
          ELSE SetRunner(Reply(R, w.sock, w.id, "worker",
                               IF w.cmd = "open" THEN "true" ELSE "status",
                               0, "", <<>>, <<>>))
    /\ outcome' = NoOutcome
    /\ UNCHANGED applied
    /\ UNCHANGED <<sock, connections, sent, legacy, site_warning, user_warning,
                   warned_cross_site, popups, nmsg, received>>
    /\ UNCHANGED loaderVars

\* ExecuteActionWebsocketsRequest._execute and
\* OpenFileWebsocketsRequest._execute, each in its thread
WorkerFinish(w, result) ==
    /\ BagIn(w, workers)
    /\ LET R == [RunnerState EXCEPT !.workers = @ (-) SetToBag({w})]
       IN IF w.cmd = "open"
          THEN IF result = "notfound"
               THEN \* RuntimeError ends the thread
                    SetRunner(R)
               ELSE IF result = "failed"
               THEN SetRunner(Reply(R, w.sock, w.id, "worker", "status", 1,
                                    "failed", <<>>, <<>>))
               ELSE SetRunner(Reply(R, w.sock, w.id, "worker", "true", 0, "",
                                    <<>>, <<>>))
          ELSE IF result = "failed"
          THEN SetRunner(Reply(R, w.sock, w.id, "worker", "status", -1,
                               "failed", <<>>, <<>>))
          ELSE SetRunner(Reply(R, w.sock, w.id, "worker", "status", 0, "",
                               <<>>, <<>>))
    /\ outcome' = NoOutcome
    /\ UNCHANGED applied
    /\ UNCHANGED <<sock, connections, sent, legacy, site_warning, user_warning,
                   warned_cross_site, popups, nmsg, received>>
    /\ UNCHANGED loaderVars

Next ==
    \/ \E s \in Sockets, origin \in Origins, origin_site \in Origins :
           NewConnection(s, origin, origin_site)
    \/ \E s \in Sockets : ConnectionClosed(s)
    \/ \E s \in Sockets, m \in Messages, dt \in {0, TickStep} :
           ProcessMessage(s, m, dt)
    \/ \E s \in Sockets, m \in Messages : ProcessUnknownSocket(s, m)
    \/ \E p \in Projects : \E configs \in ConfigLists(p, loads + 1) :
           ConfigurationsLoaded(p, configs)
    \/ ConfigurationsChanged
    \/ \E call \in BagToSet(pendingCommands), commands \in CommandLists :
           CommandsLoaded(call, commands)
    \/ \E call \in BagToSet(pendingCommands) : CommandsLoadFailed(call)
    \/ \E w \in BagToSet(workers) : \E result \in WorkerResults(w.cmd) :
           WorkerFinish(w, result)

Spec == Init /\ [][Next]_vars

\* the texts of clients that never get to send an encrypted request
HandshakeMessages == {m \in Messages : m.wire = "clear"}

\* the handshake alone, on every socket of the server: connections are
\* made, handshake and server id requests are handled, connections close
HandshakeNext ==
    \/ \E s \in AllSockets, origin \in Origins, origin_site \in Origins :
           NewConnection(s, origin, origin_site)
    \/ \E s \in AllSockets : ConnectionClosed(s)
    \/ \E s \in AllSockets, m \in HandshakeMessages : ProcessMessage(s, m, 0)
    \/ \E s \in AllSockets, m \in HandshakeMessages : ProcessUnknownSocket(s, m)

HandshakeSpec == Init /\ [][HandshakeNext]_vars

(***************************************************************************)
(* WebsocketsServer.__init__: the port the server listens on               *)
(*                                                                         *)
(* A preference is absent or holds a value: an integer, a string of        *)
(* digits, some other text, or null.                                       *)
(***************************************************************************)
WEBSOCKETS_PORT_NUMBER == 9000
HighestPort == 65535

PortNumbers ==
    {0 - 1, 0, WEBSOCKETS_PORT_NUMBER + 1, HighestPort, HighestPort + 1}

Preferences ==
    {[kind |-> k, n |-> 0] : k \in {"absent", "text", "null"}}
        \cup {[kind |-> k, n |-> n] : k \in {"int", "digits"}, n \in PortNumbers}

\* int(port_value): the number, or the exception int raises
IntOf(port_value) ==
    CASE port_value.kind \in {"int", "digits"} ->
             [raised |-> None, n |-> port_value.n]
      [] port_value.kind = "text" -> [raised |-> "ValueError", n |-> 0]
      [] OTHER -> [raised |-> "TypeError", n |-> 0]

\* the value of websockets_port when the server is told to listen, and the
\* exception that leaves the constructor before that
PortFromPreference(pref) ==
    IF pref.kind = "absent"
    THEN [raised |-> None, websockets_port |-> WEBSOCKETS_PORT_NUMBER]
    ELSE IF IntOf(pref).raised = "ValueError"
    THEN [raised |-> None, websockets_port |-> WEBSOCKETS_PORT_NUMBER]
    ELSE IF IntOf(pref).raised # None
    THEN [raised |-> IntOf(pref).raised,
          websockets_port |-> WEBSOCKETS_PORT_NUMBER]
    ELSE \* the range check raises after websockets_port has been assigned
         [raised |-> None, websockets_port |-> IntOf(pref).n]

\* WebsocketsServer.__init__ from the reading of the preference to listen()
Listen(pref) ==
    [raised |-> PortFromPreference(pref).raised,
     websockets_port |-> PortFromPreference(pref).websockets_port,
     listening |-> PortFromPreference(pref).raised = None,
     port |-> WEBSOCKETS_PORT_NUMBER]

(***************************************************************************)
(* ActionHandler (action_handler.py): the menu of actions                  *)
(***************************************************************************)
SYSTEM_COMMANDS == {"Toggle Debug Logging", "Open Log Folder"}

\* ExternalConfiguration.is_primary
is_primary(config) == config.pc = 1

\* the name an action is shown under in the menu
DisplayName(config, command) ==
    IF is_primary(config) THEN command.display_name
    ELSE pipeline_configuration_name(config) \o ": " \o command.display_name

\* the loop of ActionHandler._on_commands_loaded over the commands of one
\* configuration: an action is appended, with the serialized command as its
\* payload, unless the model already has an item of that display name
RECURSIVE AppendActions(_, _, _)
AppendActions(actions_model, config, commands) ==
    IF commands = <<>> THEN actions_model
    ELSE LET command == Head(commands)
             display_name == DisplayName(config, command)
             found == \E i \in 1..Len(actions_model) :
                          actions_model[i].display_name = display_name
         IN  AppendActions(
                 IF command.display_name \in SYSTEM_COMMANDS \/ found
                 THEN actions_model
                 ELSE Append(actions_model,
                             [display_name |-> display_name,
                              payload |-> command]),
                 config, Tail(commands))

\* the menu after the commands of every tuple have been loaded
RECURSIVE MenuOf(_, _)
MenuOf(associated_commands, actions_model) ==
    IF associated_commands = <<>> THEN actions_model
    ELSE MenuOf(Tail(associated_commands),
                AppendActions(actions_model,
                              Head(associated_commands).configuration,
                              Head(associated_commands).commands))

\* ActionHandler._execute_action: the command deserialized from the payload
execute_action(action) == action.payload

(***************************************************************************)
(* ShotgunEntityPath (shotgun_entity_path.py)                              *)
(*                                                                         *)
(* A path string is kept as the sequence of its "/<name>/<id>" segments,   *)
(* each a name and the characters of its id; "/" has no segment.  An       *)
(* object holds its five fields, None for an unset type and NoId for an    *)
(* unset id.                                                               *)
(***************************************************************************)
SUPPORTED_SECONDARY_ENTITY_TYPES == {"Version", "Task"}

NoId == 0 - 1

\* the names and id texts a segment of a path string may hold
SegmentNames == {"Project", "Shot", "Task", "Version", "My Type"}
IdTexts == {<<"0">>, <<"1">>, <<"1", "0">>, <<"0", "1">>, <<"x">>, <<>>}
Segments == [name : SegmentNames, id : IdTexts]

\* \w+ and \d+
IsWord(name) == name \in {"Project", "Shot", "Task", "Version"}
IsDigits(chars) ==
    /\ Len(chars) > 0
    /\ \A i \in 1..Len(chars) : chars[i] \in {"0", "1"}

\* int() of a string of digits
RECURSIVE IntOfDigits(_)
IntOfDigits(chars) ==
    IF chars = <<>> THEN 0
    ELSE 10 * IntOfDigits(SubSeq(chars, 1, Len(chars) - 1))
             + (IF chars[Len(chars)] = "1" THEN 1 ELSE 0)

\* "%d" of a number that is not negative
RECURSIVE DigitsOfInt(_)
DigitsOfInt(n) ==
    IF n < 10 THEN << <<"0", "1", "2", "3", "4", "5", "6", "7", "8", "9">>[n + 1] >>
    ELSE Append(DigitsOfInt(n \div 10),
                <<"0", "1", "2", "3", "4", "5", "6", "7", "8", "9">>[(n % 10) + 1])

\* ShotgunEntityPath.__init__
EmptyPath ==
    [project_id |-> NoId, primary_entity_type |-> None,
     primary_entity_id |-> NoId, secondary_entity_type |-> None,
     secondary_entity_id |-> NoId]

set_project(path_obj, project_id) ==
    [path_obj EXCEPT !.project_id = project_id]

set_primary_entity(path_obj, entity_type, entity_id) ==
    [path_obj EXCEPT !.primary_entity_type = entity_type,
                     !.primary_entity_id = entity_id]

\* set_secondary_entity: ValueError for an unsupported type
set_secondary_entity(path_obj, entity_type, entity_id) ==
    IF entity_type \notin SUPPORTED_SECONDARY_ENTITY_TYPES
    THEN [raised |-> "ValueError", obj |-> path_obj]
    ELSE [raised |-> None,
          obj |-> [path_obj EXCEPT !.secondary_entity_type = entity_type,
                                   !.secondary_entity_id = entity_id]]

\* _PROJECT_REGEX, _PRIMARY_ENTITY_REGEX and _SECONDARY_ENTITY_REGEX
MatchesRegex(path, n) ==
    /\ Len(path) = n
    /\ path[1].name = "Project"
    /\ \A i \in 1..n : IsWord(path[i].name) /\ IsDigits(path[i].id)

\* ShotgunEntityPath.from_path
from_path(path) ==
    IF MatchesRegex(path, 3)
    THEN set_secondary_entity(
             set_primary_entity(
                 set_project(EmptyPath, IntOfDigits(path[1].id)),
                 path[2].name, IntOfDigits(path[2].id)),
             path[3].name, IntOfDigits(path[3].id))
    ELSE IF MatchesRegex(path, 2)
    THEN [raised |-> None,
          obj |-> set_primary_entity(
                      set_project(EmptyPath, IntOfDigits(path[1].id)),
                      path[2].name, IntOfDigits(path[2].id))]
    ELSE IF MatchesRegex(path, 1)
    THEN [raised |-> None,
          obj |-> set_project(EmptyPath, IntOfDigits(path[1].id))]
    ELSE IF path # <<>>
    THEN [raised |-> "ValueError", obj |-> EmptyPath]
    ELSE [raised |-> None, obj |-> EmptyPath]

\* the truth value Python gives an id: None and 0 are false
Truthy(id) == id # NoId /\ id # 0

\* ShotgunEntityPath.as_string
as_string(path_obj) ==
    IF Truthy(path_obj.secondary_entity_id)
       /\ ~Truthy(path_obj.primary_entity_id)
    THEN [raised |-> "ValueError", text |-> <<>>]
    ELSE IF Truthy(path_obj.primary_entity_id) /\ ~Truthy(path_obj.project_id)
    THEN [raised |-> "ValueError", text |-> <<>>]
    ELSE IF path_obj.project_id = NoId
    THEN [raised |-> None, text |-> <<>>]
    ELSE IF path_obj.primary_entity_id = NoId
    THEN [raised |-> None,
          text |-> <<[name |-> "Project",
                      id |-> DigitsOfInt(path_obj.project_id)]>>]
    ELSE IF path_obj.secondary_entity_id = NoId
    THEN [raised |-> None,
          text |-> <<[name |-> "Project",
                      id |-> DigitsOfInt(path_obj.project_id)],
                     [name |-> path_obj.primary_entity_type,
                      id |-> DigitsOfInt(path_obj.primary_entity_id)]>>]
    ELSE [raised |-> None,
          text |-> <<[name |-> "Project",
                      id |-> DigitsOfInt(path_obj.project_id)],
                     [name |-> path_obj.primary_entity_type,
                      id |-> DigitsOfInt(path_obj.primary_entity_id)],
                     [name |-> path_obj.secondary_entity_type,
                      id |-> DigitsOfInt(path_obj.secondary_entity_id)]>>]

\* ShotgunEntityPath.is_valid
is_valid(path_obj) == as_string(path_obj).raised = None

(***************************************************************************)
(* The functions of the program applied on their own, to inputs drawn from *)
(* bounded sets; applied records the one call and what it returned.        *)
(***************************************************************************)
Apply(call) ==
    /\ applied' = call
    /\ UNCHANGED <<connVars, runnerVars, loaderVars, replies>>

\* S2.decrypt(S1.encrypt(payload))
ApplyDecrypt ==
    /\ applied = NoCall
    /\ \E s1 \in Sessions, s2 \in Sessions, payload \in Payloads, iv \in IVs :
        Apply([fn |-> "decrypt", s1 |-> s1, s2 |-> s2, payload |-> payload,
               token |-> encrypt(s1, payload, iv),
               result |-> decrypt(s2, encrypt(s1, payload, iv))])

\* WebsocketsRequest.create on the payload of a command
ApplyCreate ==
    /\ applied = NoCall
    /\ \E command_name \in FactoryNames, has_data \in BOOLEAN,
          parameters \in SUBSET ParamNames :
        /\ ~has_data => parameters = {}
        /\ Apply([fn |-> "create", command_name |-> command_name,
                  has_data |-> has_data, parameters |-> parameters,
                  result |-> create(command_name, has_data, parameters)])

\* the configurations of a project: 1 is the primary one and has no name,
\* the others are sandboxes named alike
MaxSources == 3

\* a context of two resolved sources
Contexts ==
    {<<[configuration |-> [pc |-> pc1], commands |-> l1, error |-> None],
       [configuration |-> [pc |-> pc2], commands |-> l2, error |-> None]>> :
        pc1 \in 1..MaxSources, pc2 \in 1..MaxSources,
        l1 \in ExternalCommandLists, l2 \in ExternalCommandLists}

\* the execute_action request a client makes of an entry of a reply
RequestOfEntry(config_name, entry) ==
    [name |-> entry.name, title |-> entry.title, pc |-> config_name]

\* get_actions and the menu for a context of two sources, and what executing
\* each entry of the reply and of the menu resolves to
ApplyActions ==
    /\ applied = NoCall
    /\ \E context \in Contexts :
        /\ context[1].configuration # context[2].configuration
        /\ LET response == GetActionsResponse(context,
                                              [pcs |-> <<>>, actions |-> <<>>])
               menu == MenuOf(context, <<>>)
           IN  Apply([fn |-> "actions", context |-> context,
                      response |-> response,
                      resolved |->
                          [n \in DOMAIN response.actions |->
                              [i \in 1..Len(response.actions[n]) |->
                                  ResolveCommand(
                                      RequestOfEntry(n, response.actions[n][i]),
                                      context, NoCommand)]],
                      menu |-> menu,
                      launched |-> [i \in 1..Len(menu) |->
                                       execute_action(menu[i])]])

\* the times the last check may have been made at: never, and around the
\* timeout before now
LastChecks ==
    {0, StartTime - CONFIG_CHECK_TIMEOUT_SECONDS - 1,
     StartTime - CONFIG_CHECK_TIMEOUT_SECONDS,
     StartTime - CONFIG_CHECK_TIMEOUT_SECONDS + 1, StartTime}

\* the caches a runner may hold: nothing, or the valid configurations a
\* configurations_loaded signal delivered for a project
Caches ==
    {<<>>} \cup
    UNION {{[q \in {p} |-> configs] :
               configs \in {l \in ConfigLists(p, 0) :
                               \A i \in 1..Len(l) : l[i].valid}} :
           p \in Projects}

\* RequestRunner.execute of a toolkit request, by a runner with nothing in
\* flight that holds the given cache and made its last check at the given
\* time
ApplyExecute ==
    /\ applied = NoCall
    /\ \E cache \in Caches, last \in LastChecks, id \in MsgIds,
          body \in GetActionsBodies \cup ExecuteActionBodies :
        LET R == [RunnerState EXCEPT !.cached_configs = cache,
                                     !.last_update_check = last]
        IN  Apply([fn |-> "execute", before |-> R,
                   request |-> Request(1, id, body), t |-> now,
                   after |-> RunnerExecute(R, Request(1, id, body), now, 0)])

\* RequestRunner._on_configurations_loaded for a project none of whose
\* configurations were cached when one or two toolkit requests for it were
\* submitted
ApplyConfigurationsLoaded ==
    /\ applied = NoCall
    /\ \E p \in Projects, n \in 1..MaxRequests, cmd \in ToolkitCommands :
        \E configs \in ConfigLists(p, 1) :
        LET body == Envelope(TRUE, WEBSOCKETS_PROTOCOL_VERSION, cmd,
                             CurrentUserId, TRUE, p, 1)
            R1 == RunnerExecute(RunnerState, Request(1, 1, body), now, 0)
            R2 == IF n = 1 THEN R1
                  ELSE RunnerExecute(R1, Request(1, 2, body), now, 0)
            R == [R2 EXCEPT !.pendingConfigs = @ (-) SetToBag({p})]
        IN  Apply([fn |-> "configurations_loaded", before |-> R2,
                   project_id |-> p, configs |-> configs,
                   after |-> on_configurations_loaded(R, p, configs)])

\* the construction of a server for a site with the given port preference
ApplyListen ==
    /\ applied = NoCall
    /\ \E pref \in Preferences :
        Apply([fn |-> "listen", pref |-> pref, result |-> Listen(pref)])

\* what has happened to one source of a request: nothing yet, its commands
\* were registered, or its failure was
SourceStates == {"pending", "failed"} \cup CommandLists

\* the DeferredRequest after the sources from the i-th on got to their states
RECURSIVE Resolved(_, _, _)
Resolved(dr, i, states) ==
    IF i > Len(dr.configurations) THEN dr
    ELSE LET config == dr.configurations[i].configuration
         IN  Resolved(IF states[i] = "pending" THEN dr
                      ELSE IF states[i] = "failed"
                      THEN register_commands_failure(dr, config, Reason(config))
                      ELSE register_commands(dr, config, states[i]),
                      i + 1, states)

\* DeferredRequest.execute on a request that has no configurations yet, or
\* has the cached ones registered and any of them resolved
ApplyDeferredExecute ==
    /\ applied = NoCall
    /\ \E body \in GetActionsBodies \cup ExecuteActionBodies,
          registered \in BOOLEAN, p \in Projects :
        \E configs \in {l \in ConfigLists(p, 0) : \A i \in 1..Len(l) : l[i].valid} :
        \E states \in [1..Len(configs) -> SourceStates] :
        LET dr0 == DeferredRequest(Request(1, 1, body))
            dr == IF registered
                  THEN Resolved(register_configurations(dr0, configs), 1, states)
                  ELSE dr0
        IN  /\ ~registered => configs = <<>>
            /\ Apply([fn |-> "deferred_execute", dr |-> dr,
                      result |-> DeferredRequestExecute(dr)])

\* the path strings handed to from_path: up to three segments, and longer
\* ones that repeat the last
MaxSegments == 3

PathStrings ==
    UNION {[1..n -> Segments] : n \in 0..MaxSegments}
        \cup {Append(path, path[MaxSegments]) :
                  path \in {q \in [1..MaxSegments -> Segments] :
                                MatchesRegex(q, MaxSegments)}}

\* from_path of a path string, and as_string of the object it returns
ApplyFromPath ==
    /\ applied = NoCall
    /\ \E path \in PathStrings :
        Apply([fn |-> "from_path", path |-> path, parsed |-> from_path(path),
               printed |-> as_string(from_path(path).obj)])

\* the ids and types handed to the setters
SetterIds == {0, 1, 10}
PathObjects ==
    {EmptyPath} \cup
    {o \in [project_id : SetterIds \cup {NoId},
            primary_entity_type : {None, "Shot"},
            primary_entity_id : SetterIds \cup {NoId},
            secondary_entity_type : {None} \cup SUPPORTED_SECONDARY_ENTITY_TYPES,
            secondary_entity_id : SetterIds \cup {NoId}] :
        /\ (o.primary_entity_type = None) <=> (o.primary_entity_id = NoId)
        /\ (o.secondary_entity_type = None) <=> (o.secondary_entity_id = NoId)}

\* as_string of an object built with the setters, and from_path of that
ApplyAsString ==
    /\ applied = NoCall
    /\ \E path_obj \in PathObjects :
        Apply([fn |-> "as_string", obj |-> path_obj,
               valid |-> is_valid(path_obj),
               printed |-> as_string(path_obj),
               parsed |-> from_path(as_string(path_obj).text)])

\* the entities two requests for one project and entity type can be about
EntityIds == {1, 2}
LinkedEntityTypes == {None, "Asset"}

\* RequestRunner._on_commands_loaded and _on_commands_load_failed for one of
\* the request_commands calls of two toolkit requests that were submitted
\* for a project whose configurations are cached
ApplyCommandsLoaded ==
    /\ applied = NoCall
    /\ \E cache \in Caches \ {<<>>}, body \in GetActionsBodies,
          e \in [1..2 -> EntityIds], l \in [1..2 -> LinkedEntityTypes] :
        LET R0 == [RunnerState EXCEPT !.cached_configs = cache]
            R1 == RunnerExecute(R0,
                      [Request(1, 1, body) EXCEPT !.entity_id = e[1],
                                                  !.linked_entity_type = l[1]],
                      now, 0)
            R2 == RunnerExecute(R1,
                      [Request(1, 2, body) EXCEPT !.entity_id = e[2],
                                                  !.linked_entity_type = l[2]],
                      now, 0)
        IN  \E call \in BagToSet(R2.pendingCommands),
               commands \in CommandLists \cup {None} :
            LET R == [R2 EXCEPT !.pendingCommands = @ (-) SetToBag({call})]
            IN  Apply([fn |-> "commands_loaded", before |-> R2, call |-> call,
                       commands |-> commands,
                       after |-> IF commands = None
                                 THEN on_commands_load_failed(
                                          R, call.project_id, call.entity_type,
                                          call.config, Reason(call.config))
                                 ELSE on_commands_loaded(
                                          R, call.project_id, call.entity_type,
                                          call.config, commands)])

FnNext ==
    \/ ApplyDecrypt
    \/ ApplyCreate
    \/ ApplyActions
    \/ ApplyExecute
    \/ ApplyConfigurationsLoaded
    \/ ApplyListen
    \/ ApplyDeferredExecute
    \/ ApplyFromPath
    \/ ApplyAsString
    \/ ApplyCommandsLoaded

FnSpec == Init /\ [][FnNext]_vars

(***************************************************************************)
(* Properties.  A step is a call of a connection's process_message exactly *)
(* when outcome'.op names one of its three handlers; the connection's      *)
(* state before the call is connections[outcome'.sock].state.              *)
(***************************************************************************)
IsMessageStep == outcome'.op \in {"handshake", "server_id", "encrypted"}

StateBefore == connections[outcome'.sock].state

\* the cleartext messages newly handed to sendTextMessage for socket s
NewlySent(s) == {r \in sent' \ sent : r.sock = s}

\* C1 (as the spec states it): no Request is created or handed to the
\* RequestRunner by a message handled in AWAITING_HANDSHAKE or
\* AWAITING_SERVER_ID_REQUEST, and such a message either advances the
\* handshake or raises a protocol error.
C1_AdvancesOrRaises ==
    [][(IsMessageStep /\ StateBefore # AWAITING_ENCRYPTED_REQUEST)
       => /\ ~outcome'.created /\ ~outcome'.submitted
          /\ active_requests' = active_requests
          /\ \/ outcome'.raised
             \/ connections'[outcome'.sock].state = StateBefore + 1]_vars

\* C1 (amended): a Request is created and handed to the RequestRunner only
\* by a message handled in AWAITING_ENCRYPTED_REQUEST (the active list grows
\* in no other step), and a message handled in one of the two handshake
\* states is never ignored: it advances the handshake, raises a protocol
\* error or, on a site or user mismatch, gets the connection closed.
C1_NoRequestBeforeEncrypted ==
    [][/\ (IsMessageStep /\ StateBefore # AWAITING_ENCRYPTED_REQUEST)
          => /\ ~outcome'.created /\ ~outcome'.submitted
             /\ active_requests' = active_requests
             /\ \/ outcome'.raised
                \/ connections'[outcome'.sock].state = StateBefore + 1
                \/ sock'[outcome'.sock] = "closing"
       /\ (Len(active_requests') > Len(active_requests)
            \/ (IsMessageStep /\ (outcome'.created \/ outcome'.submitted)))
          => /\ IsMessageStep
             /\ StateBefore = AWAITING_ENCRYPTED_REQUEST
             /\ outcome'.created /\ outcome'.submitted]_vars

\* a server id request from an unknown origin has been answered by closing
\* the connection: the call neither raised nor advanced the handshake
C1_Witness ==
    \E s \in DOMAIN connections :
        /\ outcome.op = "server_id" /\ outcome.sock = s /\ ~outcome.raised
        /\ connections[s].state = AWAITING_SERVER_ID_REQUEST
        /\ connections[s].origin_site = "other"
        /\ sock[s] = "closing"
        /\ active_requests = <<>>

\* the origin of the connection of socket s is the logged-in site or localhost
OriginAccepted(s) == connections[s].origin_site \in {LoggedInSite, "localhost"}

\* msg is cleartext JSON that carries an id and a user id
CarriesIdAndUser(msg) ==
    /\ msg.wire = "clear" /\ ParsesAsJson(msg.body)
    /\ msg.body.hasId /\ msg.body.user # 0

\* msg, received on socket s, fails the site check or the user check
Mismatch(s, msg) ==
    /\ CarriesIdAndUser(msg)
    /\ ~(OriginAccepted(s) /\ msg.body.user = CurrentUserId)

C3_ExecutedOnce == \A id \in MsgIds : execCount[id] <= 1

\* C4 (as the spec states it): a configurations_changed signal empties the
\* whole cache, so the next request of any project takes the miss path.
C4_ChangedEmptiesCache ==
    [][changes' # changes => DOMAIN cached_configs' = {}]_vars

\* the tuples of dr that are resolved are still tuples of dr2, in place
KeepsResolved(dr, dr2) ==
    \A k \in 1..Len(dr.configurations) :
        ~IsPending(dr.configurations[k])
        => /\ k <= Len(dr2.configurations)
           /\ dr2.configurations[k] = dr.configurations[k]

\* C5 (as the spec states it): a configurations_changed signal, and a
\* configurations_loaded signal that follows one, leave the tuples an active
\* request has already resolved as they are, while the request stays active.
C5_ResolvedTuplesKept ==
    [][(changes' # changes \/ (changes > 0 /\ loads' # loads))
       => \A i \in 1..Len(active_requests) :
              \A j \in 1..Len(active_requests') :
                  active_requests'[j].request = active_requests[i].request
                  => KeepsResolved(active_requests[i], active_requests'[j])]_vars

\* C5 (amended): a configurations_changed signal leaves every active request
\* as it is and asks the loader for the configurations of its project again,
\* once per active request.  A configurations_loaded signal that delivers a non-empty list
\* of valid configurations for a project keeps the active list's requests
\* but registers the delivered configurations afresh on every active
\* request of that project: all its tuples are pending again, whatever was
\* resolved before; requests of other projects are left as they are.
C5_ReloadRegistersAfresh ==
    [][/\ changes' # changes
          => /\ active_requests' = active_requests
             /\ \A p \in Projects :
                    CopiesIn(p, pendingConfigs') =
                        CopiesIn(p, pendingConfigs)
                        + Cardinality({i \in 1..Len(active_requests) :
                              active_requests[i].request.project_id = p})
       /\ loads' # loads
          => \A p \in DOMAIN cached_configs' :
                 LET configs == cached_configs'[p]
                 IN (configs # <<>> /\ configs[1].gen = loads')
                    => /\ Len(active_requests') = Len(active_requests)
                       /\ \A i \in 1..Len(active_requests) :
                              LET dr == active_requests[i]
                                  dr2 == active_requests'[i]
                              IN /\ dr2.request = dr.request
                                 /\ IF dr.request.project_id = p
                                    THEN /\ dr2.registered
                                         /\ dr2.configurations =
                                              [k \in 1..Len(configs) |->
                                                  [configuration |-> configs[k],
                                                   commands |-> None,
                                                   error |-> None]]
                                    ELSE dr2 = dr]_vars

\* after a configurations_changed signal the reload has reached a request
\* that was already active: it holds the configurations of the second
\* delivery, all pending, while a command call for a configuration of the
\* first delivery has been answered or is still outstanding
C5_Witness ==
    /\ changes = 1 /\ loads = 2
    /\ \E i \in 1..Len(active_requests) :
           LET dr == active_requests[i]
           IN /\ dr.registered /\ Len(dr.configurations) = 2
              /\ \A k \in 1..2 : /\ IsPending(dr.configurations[k])
                                  /\ dr.configurations[k].configuration.gen = 2
              /\ execCount[dr.request.id] = 0

\* the step is a call of process_message in AWAITING_ENCRYPTED_REQUEST
IsEncryptedStep == IsMessageStep /\ StateBefore = AWAITING_ENCRYPTED_REQUEST

\* the call has sent the reply {retcode: -1, out: "", err: ...}
ErrorReplySent ==
    /\ outcome'.replied
    /\ \E r \in NewlySent(outcome'.sock) : r.kind = "error" /\ r.id = outcome'.id

\* the call has sent nothing: no cleartext message, no encrypted reply
NothingSent == sent' = sent /\ replyCount' = replyCount /\ ~outcome'.replied

\* the connection is open, in the table and in AWAITING_ENCRYPTED_REQUEST
\* after the call
StaysOpenEncrypted ==
    /\ sock'[outcome'.sock] = "open"
    /\ outcome'.sock \in DOMAIN connections'
    /\ connections'[outcome'.sock].state = AWAITING_ENCRYPTED_REQUEST

\* C6 (as the spec states it): in AWAITING_ENCRYPTED_REQUEST a message that
\* fails decryption gets an error reply, creates no Request and leaves the
\* connection open in AWAITING_ENCRYPTED_REQUEST.
C6_DecryptFailureReplied ==
    [][(IsEncryptedStep /\ outcome'.msg.wire # "ours")
       => /\ ErrorReplySent
          /\ ~outcome'.created
          /\ StaysOpenEncrypted]_vars

\* C6 (amended): in AWAITING_ENCRYPTED_REQUEST a message that fails
\* decryption makes process_message raise; nothing is sent to the client,
\* no Request is created or handed to the runner, and the connection stays
\* open in AWAITING_ENCRYPTED_REQUEST.
C6_DecryptFailureRaises ==
    [][(IsEncryptedStep /\ outcome'.msg.wire # "ours")
       => /\ outcome'.raised
          /\ NothingSent
          /\ ~outcome'.created /\ ~outcome'.submitted
          /\ active_requests' = active_requests
          /\ StaysOpenEncrypted]_vars

\* cleartext has been received in AWAITING_ENCRYPTED_REQUEST: the call
\* raised, no reply exists and the connection is open in the same state
C6_Witness ==
    \E s \in DOMAIN connections :
        /\ outcome.op = "encrypted" /\ outcome.sock = s
        /\ outcome.msg.wire = "clear" /\ outcome.raised
        /\ connections[s].state = AWAITING_ENCRYPTED_REQUEST
        /\ sock[s] = "open"
        /\ \A id \in MsgIds : replyCount[id] = 0

\* msg decrypts but is not JSON, carries another protocol_version, or lacks
\* the id or the command
FaultyEnvelope(msg) ==
    /\ msg.wire = "ours"
    /\ \/ ~ParsesAsJson(msg.body)
       \/ msg.body.ver # WEBSOCKETS_PROTOCOL_VERSION
       \/ ~msg.body.hasId
       \/ msg.body.cmd = "none"

\* C7 (as the spec states it): in AWAITING_ENCRYPTED_REQUEST a decrypted
\* message with another protocol_version or a malformed envelope creates no
\* Request, gets an error reply and leaves the connection open in
\* AWAITING_ENCRYPTED_REQUEST.
C7_FaultyEnvelopeReplied ==
    [][(IsEncryptedStep /\ FaultyEnvelope(outcome'.msg))
       => /\ ~outcome'.created /\ ~outcome'.submitted
          /\ ErrorReplySent
          /\ StaysOpenEncrypted]_vars

\* C7 (amended): in AWAITING_ENCRYPTED_REQUEST a decrypted message that is
\* not JSON, carries a protocol_version other than 2 or lacks the id makes
\* process_message raise with nothing sent; an envelope with version 2 and
\* an id that lacks the command gets the reply {retcode: -1}.  In both
\* cases no Request is created or handed to the runner and the connection
\* stays open in AWAITING_ENCRYPTED_REQUEST.
C7_FaultyEnvelopeRaises ==
    [][(IsEncryptedStep /\ FaultyEnvelope(outcome'.msg))
       => LET body == outcome'.msg.body
              answered == /\ ParsesAsJson(body)
                          /\ body.ver = WEBSOCKETS_PROTOCOL_VERSION
                          /\ body.hasId
          IN /\ ~outcome'.created /\ ~outcome'.submitted
             /\ active_requests' = active_requests
             /\ StaysOpenEncrypted
             /\ IF answered
                THEN /\ ~outcome'.raised /\ ErrorReplySent
                     /\ replyCount'[outcome'.id] = replyCount[outcome'.id] + 1
                ELSE outcome'.raised /\ NothingSent]_vars

\* an envelope of protocol version 1 has been received in
\* AWAITING_ENCRYPTED_REQUEST: the call raised, no reply exists and the
\* connection is open in the same state
C7_Witness ==
    \E s \in DOMAIN connections :
        /\ outcome.op = "encrypted" /\ outcome.sock = s
        /\ outcome.msg.wire = "ours" /\ outcome.msg.body.ver = 1
        /\ outcome.raised
        /\ connections[s].state = AWAITING_ENCRYPTED_REQUEST
        /\ sock[s] = "open"
        /\ \A id \in MsgIds : replyCount[id] = 0

\* C8 (as the spec states it): when the creation of the Request or its
\* submission to the runner fails, process_message does not raise, one
\* reply {retcode: -1} with the id of the message is sent, the connection
\* stays in AWAITING_ENCRYPTED_REQUEST and no DeferredRequest is left in the
\* active list for the message.
C8_FailureLeavesNoRequest ==
    [][(IsEncryptedStep
        /\ \E r \in NewlySent(outcome'.sock) : r.kind = "error")
       => /\ ~outcome'.raised
          /\ replyCount'[outcome'.id] = replyCount[outcome'.id] + 1
          /\ StaysOpenEncrypted
          /\ active_requests' = active_requests]_vars

\* msg is a protocol fault for a connection in state: anything but the probe
\* in AWAITING_HANDSHAKE; in AWAITING_SERVER_ID_REQUEST a message that is
\* not cleartext JSON with an id and a user id, or whose command is not
\* get_ws_server_id
HandshakeFault(state, msg) ==
    \/ /\ state = AWAITING_HANDSHAKE
       /\ msg # [wire |-> "clear", body |-> ProbeBody]
    \/ /\ state = AWAITING_SERVER_ID_REQUEST
       /\ ~CarriesIdAndUser(msg) \/ msg.body.cmd # "get_ws_server_id"

\* C9 (as the spec states it): a protocol fault in one of the two handshake
\* states gets the connection closed.
C9_FaultCloses ==
    [][(IsMessageStep /\ HandshakeFault(StateBefore, outcome'.msg))
       => sock'[outcome'.sock] = "closing"]_vars

\* C9 (amended): a protocol fault in one of the two handshake states makes
\* process_message raise, which the server only logs: unless the message
\* fails the site or user check, the connection is not closed, stays in the
\* table in the state it was in, and nothing is sent.
C9_FaultRaises ==
    [][(/\ IsMessageStep
        /\ HandshakeFault(StateBefore, outcome'.msg)
        /\ ~Mismatch(outcome'.sock, outcome'.msg))
       => /\ outcome'.raised
          /\ sock'[outcome'.sock] = "open"
          /\ connections' = connections
          /\ NothingSent]_vars

\* a message other than the probe has been received in AWAITING_HANDSHAKE:
\* the call raised and the connection is open, still in AWAITING_HANDSHAKE
C9_Witness ==
    \E s \in DOMAIN connections :
        /\ outcome.op = "handshake" /\ outcome.sock = s /\ outcome.raised
        /\ connections[s].state = AWAITING_HANDSHAKE
        /\ sock[s] = "open"
        /\ sent = {}

\* msg is a command envelope, encrypted or cleartext, and not the server id
\* request
CommandPhase(msg) ==
    \/ msg.wire = "ours"
    \/ /\ msg.wire = "clear" /\ ParsesAsJson(msg.body)
       /\ msg.body.cmd # "get_ws_server_id"

\* C10 (as the spec states it): a command envelope received before the
\* connection is in AWAITING_ENCRYPTED_REQUEST raises a protocol error and
\* leaves the state of the connection, the connection table, the cache and
\* the active list as they are.
C10_EarlyCommandRaises ==
    [][(IsMessageStep /\ StateBefore # AWAITING_ENCRYPTED_REQUEST
        /\ CommandPhase(outcome'.msg))
       => /\ outcome'.raised
          /\ UNCHANGED <<connections, cached_configs, active_requests>>]_vars

\* C10 (amended): a command envelope received before the connection is in
\* AWAITING_ENCRYPTED_REQUEST leaves the state of the connection, the
\* connection table, the cache and the active list as they are; it raises a
\* protocol error, except that a cleartext envelope received in
\* AWAITING_SERVER_ID_REQUEST that fails the site or user check gets the
\* connection closed without an error being raised.
C10_EarlyCommandChangesNothing ==
    [][(IsMessageStep /\ StateBefore # AWAITING_ENCRYPTED_REQUEST
        /\ CommandPhase(outcome'.msg))
       => /\ UNCHANGED <<connections, cached_configs, active_requests>>
          /\ UNCHANGED <<pendingConfigs, pendingCommands, replyCount>>
          /\ IF /\ StateBefore = AWAITING_SERVER_ID_REQUEST
                /\ Mismatch(outcome'.sock, outcome'.msg)
             THEN ~outcome'.raised /\ sock'[outcome'.sock] = "closing"
             ELSE outcome'.raised /\ UNCHANGED <<sock, sent>>]_vars

\* an encrypted command has been received in AWAITING_SERVER_ID_REQUEST: the
\* call raised, the connection is open in the same state and the runner
\* holds nothing
C10_Witness ==
    \E s \in DOMAIN connections :
        /\ outcome.op = "server_id" /\ outcome.sock = s
        /\ outcome.msg.wire = "ours" /\ outcome.raised
        /\ connections[s].state = AWAITING_SERVER_ID_REQUEST
        /\ sock[s] = "open"
        /\ active_requests = <<>> /\ DOMAIN cached_configs = {}

\* no tuple of dr is pending: each has a command list or an error
NonePending(dr) ==
    \A k \in 1..Len(dr.configurations) : ~IsPending(dr.configurations[k])

\* C11 (as the spec states it): can_be_executed is false while no sources
\* have been registered and, once sources are registered, true exactly when
\* no registered tuple is pending, for every number of sources, zero
\* included.
C11_ExecutableIffNonePending ==
    \A i \in 1..Len(active_requests) :
        LET dr == active_requests[i]
        IN can_be_executed(dr) <=> (dr.registered /\ NonePending(dr))

\* what a source can report: a command list or a failure reason
Resolutions(config) ==
    {[commands |-> c, error |-> None] : c \in CommandLists}
    \cup {[commands |-> None, error |-> Reason(config)]}

\* one resolution of the source config of dr, by register_commands or by
\* register_commands_failure
Resolve(dr, config, o) ==
    IF o.error = None
    THEN register_commands(dr, config, o.commands)
    ELSE register_commands_failure(dr, config, o.error)

\* the sources registered on dr
SourcesOf(dr) ==
    {dr.configurations[k].configuration : k \in 1..Len(dr.configurations)}

\* C12 (as the spec states it): once a source of a DeferredRequest has been
\* resolved, a second resolution of the same source, with the same or with
\* another outcome, leaves the DeferredRequest as the first resolution left
\* it.
C12_SecondResolutionIgnored ==
    \A i \in 1..Len(active_requests) :
        LET dr == active_requests[i]
        IN \A config \in SourcesOf(dr) : \A o1, o2 \in Resolutions(config) :
               Resolve(Resolve(dr, config, o1), config, o2)
                   = Resolve(dr, config, o1)

\* C12 (amended): a resolution overwrites the tuple of its source: after a
\* second resolution of the same source the DeferredRequest is what the
\* second resolution alone would have made of it (unchanged when the two
\* outcomes are the same, replaced when they differ), the tuple of the
\* source holds the second outcome, and no other tuple is touched.
C12_LastResolutionWins ==
    \A i \in 1..Len(active_requests) :
        LET dr == active_requests[i]
        IN \A config \in SourcesOf(dr) : \A o1, o2 \in Resolutions(config) :
               LET once == Resolve(dr, config, o1)
                   twice == Resolve(once, config, o2)
                   k == FirstIndex(dr.configurations, {config})
               IN /\ twice = Resolve(dr, config, o2)
                  /\ (twice = once) <=> (o1 = o2)
                  /\ twice.configurations[k].commands = o2.commands
                  /\ twice.configurations[k].error = o2.error
                  /\ \A j \in 1..Len(dr.configurations) :
                         j # k => twice.configurations[j] = dr.configurations[j]

\* two requests of a project wait for the same two sources; both calls for
\* the first source have been answered, so each request has had its first
\* tuple resolved twice, and the second source is still pending
C12_Witness ==
    /\ loads = 1 /\ changes = 0 /\ Len(active_requests) = 2
    /\ \A i \in 1..2 :
           LET dr == active_requests[i]
           IN /\ dr.registered /\ Len(dr.configurations) = 2
              /\ dr.configurations[1].configuration.valid
              /\ ~IsPending(dr.configurations[1])
              /\ IsPending(dr.configurations[2])
    /\ \A call \in BagToSet(pendingCommands) : call.config.pc # 1

(***************************************************************************)
(* Liveness.  The loader answers on the event loop: a call that is         *)
(* outstanding is eventually answered, and a thread that was started       *)
(* eventually ends.                                                        *)
(***************************************************************************)
LoaderAnswers ==
    \/ \E p \in Projects : \E configs \in ConfigLists(p, loads + 1) :
           ConfigurationsLoaded(p, configs)
    \/ \E call \in BagToSet(pendingCommands), commands \in CommandLists :
           CommandsLoaded(call, commands)
    \/ \E call \in BagToSet(pendingCommands) : CommandsLoadFailed(call)

ThreadsEnd ==
    \E w \in BagToSet(workers) : \E result \in WorkerResults(w.cmd) :
        WorkerFinish(w, result)

LiveSpec == Spec /\ WF_vars(LoaderAnswers) /\ WF_vars(ThreadsEnd)

\* the request with this id is in the active list and its submission did
\* not fail: the loader was asked for the configurations of its project,
\* or for the commands of the cached ones
InActive(id) ==
    \E i \in 1..Len(active_requests) :
        /\ active_requests[i].request.id = id
        /\ active_requests[i].request.project_id \in Projects

\* the loader owes no answer: every request_configurations call and every
\* request_commands call has been answered
AllAnswered == pendingConfigs = EmptyBag /\ pendingCommands = EmptyBag

\* the configurations of the project of request id were delivered and every
\* source registered on the request has reported commands or a failure
Reported(id) ==
    \A i \in 1..Len(active_requests) :
        active_requests[i].request.id = id
        => active_requests[i].registered /\ NonePending(active_requests[i])

\* C13 (as the spec states it): if the loader delivers the configurations of
\* the project and every registered source reports commands or a failure,
\* a request in the active list is eventually executed and out of the
\* active list, whatever the number of sources delivered, zero included.
C13_EventuallyExecuted ==
    \A id \in MsgIds :
        (<>[](AllAnswered /\ Reported(id)))
        => (InActive(id) ~> (~InActive(id) /\ execCount[id] > 0))

\* the step is the submission of a request that needs no toolkit context
IsImmediateStep ==
    /\ IsEncryptedStep /\ outcome'.submitted
    /\ outcome'.msg.body.cmd \in ImmediateCommands

\* C14: the submission of a request that needs no toolkit context executes
\* it inside RequestRunner.execute (its reply is sent in the same step, or,
\* for open, its thread is started) and leaves the active list and the
\* cache as they are; no DeferredRequest is created and the loader is asked
\* neither for configurations nor for commands nor for a refresh.
C14_ImmediateLeavesRunner ==
    [][IsImmediateStep
       => /\ ~outcome'.raised
          /\ active_requests' = active_requests
          /\ cached_configs' = cached_configs
          /\ last_update_check' = last_update_check
          /\ UNCHANGED <<pendingConfigs, pendingCommands, refreshPending>>
          /\ execCount' = execCount
          /\ IF outcome'.msg.body.cmd = "open"
             THEN /\ replies' = {}
                  /\ \E w \in BagToSet(workers') :
                         /\ w.id = outcome'.id /\ w.cmd = "open"
                         /\ workers' = workers (+) SetToBag({w})
             ELSE /\ workers' = workers
                  /\ \E r \in replies' :
                         /\ replies' = {r}
                         /\ r.id = outcome'.id /\ r.via = "execute"
                  /\ replyCount'[outcome'.id] = replyCount[outcome'.id] + 1]_vars

\* a file pick has been submitted and answered while a get_actions request
\* waits in the active list for the commands of its cached configurations
C14_Witness ==
    /\ outcome.op = "encrypted" /\ outcome.submitted
    /\ outcome.msg.body.cmd = "pick_file_or_directory"
    /\ \E r \in replies : r.id = outcome.id /\ r.payload = "files"
    /\ Len(active_requests) = 1
    /\ active_requests[1].request.id # outcome.id
    /\ DOMAIN cached_configs # {}
    /\ pendingCommands # EmptyBag

\* C15 (as the spec states it): a message that names a command without
\* toolkit context gets exactly one reply, whether the request succeeds or
\* fails, and the reply is sent while the message is handled: none is sent
\* for such a request by a later step.
C15_ImmediateRepliesOnce ==
    [][/\ (/\ IsEncryptedStep /\ outcome'.msg.wire = "ours"
           /\ outcome'.msg.body.cmd \in ImmediateCommands
           /\ ~outcome'.raised)
          => /\ replyCount'[outcome'.id] = replyCount[outcome'.id] + 1
             /\ \E r \in replies' : replies' = {r} /\ r.id = outcome'.id
       /\ ~IsMessageStep
          => \A w \in BagToSet(workers) :
                 w.cmd \in ImmediateCommands
                 => replyCount'[w.id] = replyCount[w.id]]_vars

\* C16 (as the spec states it): once the connectionClosed event of a socket
\* has been handled, no DeferredRequest created from a message of that
\* socket is in the active list, none is executed and no reply is sent to
\* the socket.
C16_ClosedCancelsRequests ==
    [][/\ \A i \in 1..Len(active_requests') :
              sock'[active_requests'[i].request.sock] # "closed"
       /\ \A i \in 1..Len(active_requests) :
              LET request == active_requests[i].request
              IN sock[request.sock] = "closed"
                 => execCount'[request.id] = execCount[request.id]
       /\ \A r \in replies' : sock[r.sock] # "closed"]_vars

\* C16 (amended): the connectionClosed event of a socket removes the
\* connection from the connection table and nothing else: the
\* DeferredRequests created from messages of the socket stay in the active
\* list and nothing of the runner or the loader changes; when such a
\* request is executed later, its reply is handed to sendTextMessage for
\* that socket like the reply of any other request.
C16_ClosedLeavesRequests ==
    [][/\ \A s \in Sockets :
              (sock[s] # "closed" /\ sock'[s] = "closed")
              => /\ s \notin DOMAIN connections'
                 /\ \A c \in DOMAIN connections \ {s} :
                        c \in DOMAIN connections'
                        /\ connections'[c] = connections[c]
                 /\ active_requests' = active_requests
                 /\ replies' = {}
                 /\ UNCHANGED <<cached_configs, last_update_check, execCount,
                                workers, replyCount, pendingConfigs,
                                pendingCommands, refreshPending>>
       /\ \A i \in 1..Len(active_requests) :
              LET request == active_requests[i].request
              IN (/\ execCount'[request.id] > execCount[request.id]
                  /\ request.cmd = "get_actions")
                 => \E r \in replies' :
                        /\ r.id = request.id /\ r.sock = request.sock
                        /\ r.via = "context"]_vars

\* a get_actions request has been executed after the connection it came
\* from was closed: its reply was handed over for the closed socket
C16_Witness ==
    \E r \in replies :
        /\ r.via = "context"
        /\ sock[r.sock] = "closed"
        /\ r.sock \notin DOMAIN connections
        /\ received[r.id] = r.sock
        /\ execCount[r.id] = 1

\* every source of dr has reported, at least one of them with an error
ResolvedWithError(dr) ==
    /\ dr.registered /\ NonePending(dr)
    /\ \E k \in 1..Len(dr.configurations) : dr.configurations[k].error # None

\* the error strings of the tuples, in the order of the sources
RECURSIVE ErrorsOf(_)
ErrorsOf(configurations) ==
    IF configurations = <<>> THEN <<>>
    ELSE IF Head(configurations).error # None
    THEN <<Head(configurations).error>> \o ErrorsOf(Tail(configurations))
    ELSE ErrorsOf(Tail(configurations))

\* C17 (as the spec states it): a request whose sources have all reported,
\* at least one of them with an error, can be executed and is executed: no
\* step leaves it in the active list without it having been executed.  The
\* reply of get_actions then has retcode CACHING_ERROR, the error strings of
\* the failing sources joined by newline in source order as err, and no
\* actions; with no failing source its retcode is 0.
C17_PartialFailureReported ==
    [][/\ \A i \in 1..Len(active_requests') :
              LET dr == active_requests'[i]
              IN ResolvedWithError(dr)
                 => can_be_executed(dr) /\ execCount'[dr.request.id] > 0
       /\ \A i \in 1..Len(active_requests) :
              LET request == active_requests[i].request
              IN (/\ request.cmd = "get_actions"
                  /\ execCount'[request.id] > execCount[request.id])
                 => \E r \in replies' :
                        /\ r.id = request.id /\ r.via = "context"
                        /\ IF ErrorsOf(r.context) = <<>>
                           THEN /\ r.retcode = 0 /\ r.payload = "actions"
                                /\ r.err = ""
                           ELSE /\ r.retcode = CACHING_ERROR
                                /\ r.payload # "actions"
                                /\ r.err = JoinLines(ErrorsOf(r.context))]_vars

\* C18 (as the spec states it): an execute_action request that is executed
\* without a command being launched (no command matches, or the matching
\* configuration resolved with an error) gets exactly one error reply with
\* its id on its socket, and the other active requests are not disturbed:
\* none that can be executed is left in the active list.
C18_ActionFailureReplied ==
    [][\A i \in 1..Len(active_requests) :
           LET request == active_requests[i].request
           IN (/\ request.cmd = "execute_action"
               /\ execCount'[request.id] > execCount[request.id]
               /\ CopiesIn(request, workers') <= CopiesIn(request, workers))
              => /\ Cardinality({r \in replies' : r.id = request.id}) = 1
                 /\ replyCount'[request.id] = replyCount[request.id] + 1
                 /\ \A r \in replies' :
                        r.id = request.id
                        => r.sock = request.sock /\ r.retcode # 0
                 /\ \A j \in 1..Len(active_requests') :
                        active_requests'[j].request.id # request.id
                        => ~can_be_executed(active_requests'[j])]_vars

SecretAbsent(text) ==
    /\ "ws_server_secret" \notin text.keys
    /\ text.server_id # EncryptionHandler.secret

ContractParams(command_name) ==
    CASE command_name = "get_actions" ->
             {"entity_id", "entity_type", "project_id"}
      [] command_name = "execute_action" ->
             {"name", "title", "pc", "entity_ids", "entity_type", "project_id"}
      [] command_name = "open" -> {"filepath"}
      [] command_name = "sgc_open_task" -> {"task_id"}
      [] command_name = "sgc_open_task_board" -> {"project_id"}
      [] command_name = "sgc_open_version_draft" -> {"task_id", "path"}
      [] OTHER -> {}

\* C24: the factory constructs a request exactly when the command name is
\* one of the supported commands and the data holds every parameter the
\* command requires; otherwise it constructs nothing and raises an error
\* that names the unknown command or a missing required parameter.
C24_FactoryContract ==
    (applied.fn = "create" /\ applied.has_data)
    => LET known == applied.command_name \in get_supported_commands
           missing == ContractParams(applied.command_name)
                          \ applied.parameters
       IN  /\ applied.result.class # None <=> (known /\ missing = {})
           /\ ~known => /\ applied.result.raised # None
                        /\ applied.result.names = applied.command_name
           /\ (known /\ missing # {})
              => /\ applied.result.raised # None
                 /\ applied.result.names \in missing

\* the sources of a list of tuples, in the order of the list
SourceList(configurations) ==
    [i \in 1..Len(configurations) |-> configurations[i].configuration]

RequestOf(requests, id) ==
    {requests[i] : i \in {j \in 1..Len(requests) : requests[j].request.id = id}}

\* C25: the sources of a DeferredRequest stay in the order they were
\* registered in.  A request registered on submission has the sources of the
\* cache entry in the order of the entry; a delivery of valid configurations
\* leaves every request of the project with the delivered list, which is the
\* new cache entry; no other step (a resolution of commands, a failure, an
\* execution) changes the order of a registered request; the tuples handed
\* to execute_with_context are in the order the request held before the
\* step; and the pcs of a get_actions reply name those sources in that order.
C25_SourceOrderKept ==
    [][/\ \A dr2 \in UNION {RequestOf(active_requests', id) : id \in MsgIds} :
              LET olds == RequestOf(active_requests, dr2.request.id)
                  p == dr2.request.project_id
              IN  /\ (olds = {} /\ dr2.registered)
                     => /\ p \in DOMAIN cached_configs
                        /\ SourceList(dr2.configurations) = cached_configs[p]
                  /\ \A dr \in olds :
                         (dr.registered /\ loads' = loads)
                         => SourceList(dr2.configurations)
                                = SourceList(dr.configurations)
                  /\ (loads' # loads /\ dr2.registered)
                     => \/ /\ p \in DOMAIN cached_configs'
                           /\ SourceList(dr2.configurations)
                                  = cached_configs'[p]
                        \/ \A i \in 1..Len(dr2.configurations) :
                               ~dr2.configurations[i].configuration.valid
       /\ \A r \in replies' \ replies :
              r.via = "context"
              => /\ loads' = loads
                    => \E dr \in RequestOf(active_requests, r.id) :
                           /\ dr.registered
                           /\ SourceList(r.context)
                                  = SourceList(dr.configurations)
                 /\ r.payload = "actions"
                    => r.pcs = [i \in 1..Len(r.context) |->
                                   ConfigName(r.context[i].configuration)]]_vars

\* a get_actions reply lists two configurations, and another request of the
\* project has its second source resolved while its first is still pending
C25_Witness ==
    /\ \E r \in replies : r.payload = "actions" /\ r.pcs = <<"Primary", "Dev">>
    /\ \E i \in 1..Len(active_requests) :
           LET tuples == active_requests[i].configurations
           IN  /\ Len(tuples) = 2
               /\ IsPending(tuples[1])
               /\ ~IsPending(tuples[2])

\* the commands the sources of a context report
ReportedCommands(context) ==
    UNION {{context[k].commands[i] : i \in 1..Len(context[k].commands)} :
              k \in 1..Len(context)}

\* how many entries of a get_actions reply have the title
TitleCount(response, title) ==
    Cardinality({<<n, i>> \in (DOMAIN response.actions) \X (1..2) :
                    /\ i <= Len(response.actions[n])
                    /\ response.actions[n][i].title = title})

\* C26: when the two sources of a context report a command of the same
\* display name, the get_actions reply has one entry of that title and the
\* menu one action of each display name, and executing any entry, of the
\* reply or of the menu, resolves to a command the sources reported.
C26_DuplicateShownOnce ==
    applied.fn = "actions"
    => /\ \A command \in ReportedCommands(applied.context) :
              (\A k \in 1..2 :
                   \E i \in 1..Len(applied.context[k].commands) :
                       applied.context[k].commands[i].display_name
                           = command.display_name)
              => TitleCount(applied.response, command.display_name) = 1
       /\ \A n \in DOMAIN applied.resolved :
              \A i \in 1..Len(applied.resolved[n]) :
                  applied.resolved[n][i] \in ReportedCommands(applied.context)
       /\ \A i \in 1..Len(applied.menu), j \in 1..Len(applied.menu) :
              applied.menu[i].display_name = applied.menu[j].display_name
              => i = j
       /\ \A i \in 1..Len(applied.launched) :
              applied.launched[i] \in ReportedCommands(applied.context)

\* the calls of request_commands a request makes of a list of configurations
CommandCalls(request, configs) ==
    {[config |-> configs[i], project_id |-> request.project_id,
      entity_type |-> request.entity_type, entity_id |-> request.entity_id,
      linked_entity_type |-> request.linked_entity_type] :
        i \in 1..Len(configs)}

\* C27: when the project of a submitted toolkit request is in the cache,
\* refresh_shotgun_global_state is called exactly when more than
\* CONFIG_CHECK_TIMEOUT_SECONDS have passed since the last check, and the
\* time of the last check then becomes now and otherwise stays; refreshed or
\* not, the same call appends the request with the cached configurations
\* registered, all pending, and requests the commands of each of them once.
\* When the project is not in the cache no refresh is made and the time of
\* the last check stays.
C27_RefreshOnStaleHit ==
    (applied.fn = "execute" /\ ~applied.after.raised)
    => LET b == applied.before
           a == applied.after
           request == applied.request
           hit == request.project_id \in DOMAIN b.cached_configs
           stale == applied.t - b.last_update_check
                        > CONFIG_CHECK_TIMEOUT_SECONDS
           dr == a.active_requests[Len(a.active_requests)]
       IN  /\ Len(a.active_requests) = Len(b.active_requests) + 1
           /\ dr.request = request
           /\ hit => /\ a.refreshPending <=> stale
                     /\ a.last_update_check
                            = IF stale THEN applied.t ELSE b.last_update_check
                     /\ dr = register_configurations(
                                 DeferredRequest(request),
                                 b.cached_configs[request.project_id])
                     /\ a.pendingCommands
                            = SetToBag(CommandCalls(
                                  request, b.cached_configs[request.project_id]))
                     /\ a.pendingConfigs = EmptyBag
           /\ ~hit => /\ ~a.refreshPending
                      /\ a.last_update_check = b.last_update_check

\* a hit on a cache of two configurations checked exactly the timeout ago:
\* no refresh, and the commands of both configurations are requested
C27_Witness ==
    /\ applied.fn = "execute"
    /\ applied.request.project_id \in DOMAIN applied.before.cached_configs
    /\ applied.t - applied.before.last_update_check
           = CONFIG_CHECK_TIMEOUT_SECONDS
    /\ ~applied.after.refreshPending
    /\ BagCardinality(applied.after.pendingCommands) = 2

\* the calls of request_commands made for every request of a project
RECURSIVE CallsFor(_, _, _)
CallsFor(requests, project_id, configs) ==
    IF requests = <<>> THEN EmptyBag
    ELSE (IF Head(requests).request.project_id = project_id
          THEN SetToBag(CommandCalls(Head(requests).request, configs))
          ELSE EmptyBag) (+) CallsFor(Tail(requests), project_id, configs)

\* C28: a request submitted for a project that is not in the cache waits in
\* the active list with no configurations registered and cannot be executed;
\* when configurations_loaded then delivers valid configurations for the
\* project, the list becomes the cache entry of the project, every active
\* request of the project holds exactly the delivered configurations, each
\* pending, and request_commands has been called once on each configuration
\* for each request, with the project and the entity type, entity id and
\* linked entity type of the request.
C28_MissThenLoaded ==
    applied.fn = "configurations_loaded"
    => LET b == applied.before
           a == applied.after
           p == applied.project_id
           configs == applied.configs
       IN  /\ \A i \in 1..Len(b.active_requests) :
                  /\ ~b.active_requests[i].registered
                  /\ b.active_requests[i].configurations = <<>>
                  /\ ~can_be_executed(b.active_requests[i])
           /\ b.pendingCommands = EmptyBag
           /\ (\A k \in 1..Len(configs) : configs[k].valid)
              => /\ p \in DOMAIN a.cached_configs
                 /\ a.cached_configs[p] = configs
                 /\ Len(a.active_requests) = Len(b.active_requests)
                 /\ \A i \in 1..Len(a.active_requests) :
                        LET dr == a.active_requests[i]
                        IN  /\ dr.request = b.active_requests[i].request
                            /\ dr.registered
                            /\ SourceList(dr.configurations) = configs
                            /\ \A k \in 1..Len(configs) :
                                   IsPending(dr.configurations[k])
                 /\ a.pendingCommands
                        = CallsFor(b.active_requests, p, configs)
                 /\ a.replies = {}

\* two requests were waiting for the project, and two valid configurations
\* were delivered: four calls of request_commands are pending
C28_Witness ==
    /\ applied.fn = "configurations_loaded"
    /\ Len(applied.before.active_requests) = 2
    /\ Len(applied.configs) = 2
    /\ \A k \in 1..2 : applied.configs[k].valid
    /\ BagCardinality(applied.after.pendingCommands) = 4

\* C29: the server listens on the value of the port preference when the
\* preference exists and is an integer from 0 to 65535 (written as a number
\* or in digits), and on port 9000 in every other case.
C29_PortFromPreference ==
    applied.fn = "listen"
    => /\ applied.result.listening
       /\ applied.result.port
              = IF /\ applied.pref.kind \in {"int", "digits"}
                   /\ applied.pref.n \in 0..HighestPort
                THEN applied.pref.n
                ELSE WEBSOCKETS_PORT_NUMBER

\* C30: execute() of a DeferredRequest that cannot be executed raises
\* RuntimeError without calling execute_with_context of the wrapped request,
\* and leaves the DeferredRequest as it was.
C30_ExecuteNeedsReady ==
    (applied.fn = "deferred_execute" /\ ~can_be_executed(applied.dr))
    => /\ applied.result.raised = "RuntimeError"
       /\ ~applied.result.invoked
       /\ applied.result.result = NotInvoked
       /\ applied.result.dr = applied.dr

\* execute() was called on a request with one source resolved and one still
\* pending, and raised
C30_Witness ==
    /\ applied.fn = "deferred_execute"
    /\ Len(applied.dr.configurations) = 2
    /\ ~IsPending(applied.dr.configurations[1])
    /\ IsPending(applied.dr.configurations[2])
    /\ applied.result.raised = "RuntimeError"

\* an id text as "%d" writes a number: digits without a leading zero
Canonical(chars) ==
    /\ IsDigits(chars)
    /\ Len(chars) > 1 => chars[1] # "0"

\* the path strings of the four documented forms
DocumentedForm(path) ==
    /\ Len(path) <= 3
    /\ \A i \in 1..Len(path) : IsWord(path[i].name) /\ Canonical(path[i].id)
    /\ Len(path) >= 1 => path[1].name = "Project"
    /\ Len(path) = 3 => path[3].name \in {"Task", "Version"}

\* C31: from_path followed by as_string gives back every path string of the
\* documented forms whose ids are canonical, 0 included; and from_path of
\* what as_string returns for an object built with the setters gives an
\* object with the same five fields.
C31_PathRoundTrip ==
    /\ (applied.fn = "from_path" /\ DocumentedForm(applied.path))
       => /\ applied.parsed.raised = None
          /\ applied.printed.raised = None
          /\ applied.printed.text = applied.path
    /\ (applied.fn = "as_string" /\ applied.printed.raised = None)
       => /\ applied.parsed.raised = None
          /\ applied.parsed.obj = applied.obj

\* an entity of a path object is defined when its id has been set
Defined(id) == id # NoId

\* C40: from_path raises ValueError for every string other than "/" that
\* matches none of the three regexes and for a secondary entity type other
\* than Version or Task; every object it returns satisfies is_valid(); and
\* is_valid() holds exactly when a defined secondary entity comes with a
\* defined primary entity and a defined primary entity with a project.
C40_ParseContract ==
    /\ applied.fn = "from_path"
       => /\ (/\ applied.path # <<>>
              /\ \A n \in 1..MaxSegments : ~MatchesRegex(applied.path, n))
             => applied.parsed.raised = "ValueError"
          /\ (/\ MatchesRegex(applied.path, MaxSegments)
              /\ applied.path[MaxSegments].name \notin {"Version", "Task"})
             => applied.parsed.raised = "ValueError"
          /\ applied.parsed.raised = None => is_valid(applied.parsed.obj)
    /\ applied.fn = "as_string"
       => (applied.valid <=>
              /\ Defined(applied.obj.secondary_entity_id)
                 => Defined(applied.obj.primary_entity_id)
              /\ Defined(applied.obj.primary_entity_id)
                 => Defined(applied.obj.project_id))

\* the ids of the requests of a runner's active list that are for a project
ActiveIdsFor(R, project_id) ==
    {R.active_requests[i].request.id :
        i \in {j \in 1..Len(R.active_requests) :
                  R.active_requests[j].request.project_id = project_id}}

\* C32: when configurations_loaded delivers a list with one or more invalid
\* configurations for a project, every active request of that project is
\* answered with an error within the callback and leaves the active list,
\* however many invalid configurations the list holds.
C32_InvalidConfigsFailRequests ==
    (/\ applied.fn = "configurations_loaded"
     /\ \E i \in 1..Len(applied.configs) : ~applied.configs[i].valid)
    => \A id \in ActiveIdsFor(applied.before, applied.project_id) :
          /\ id \notin ActiveIdsFor(applied.after, applied.project_id)
          /\ \E reply \in applied.after.replies :
                reply.id = id /\ reply.retcode # 0

\* C33: every reply is sent from the event loop, never from a detached
\* thread, and no request is handed to a thread before its reply has been
\* produced: loading configuration sources is the only work that leaves the
\* loop ahead of a reply.
C33_RepliesOnEventLoop ==
    [][/\ \A r \in replies' : r.via # "worker"
       /\ \A w \in BagToSet(workers') :
              CopiesIn(w, workers') > CopiesIn(w, workers)
              => replyCount'[w.id] > 0]_vars

\* the deferred requests of a runner's active list with the given id
DeferredOf(R, id) ==
    {R.active_requests[i] :
        i \in {j \in 1..Len(R.active_requests) :
                  R.active_requests[j].request.id = id}}

\* C34: a commands_loaded or commands_load_failed callback for one entity
\* resolves no tuple of, and does not execute, an active request of the same
\* project and entity type that is about another entity id or another
\* linked entity type.
C34_OwnResultsOnly ==
    applied.fn = "commands_loaded"
    => \A i \in 1..Len(applied.before.active_requests) :
          LET dr == applied.before.active_requests[i]
          IN (\/ dr.request.entity_id # applied.call.entity_id
              \/ dr.request.linked_entity_type
                     # applied.call.linked_entity_type)
             => /\ DeferredOf(applied.after, dr.request.id) = {dr}
                /\ applied.after.execCount[dr.request.id]
                       = applied.before.execCount[dr.request.id]

\* the number of warnings shown when a displayed-flag is set
Shown(flag) == IF flag THEN 1 ELSE 0

C36_StateMovesForward ==
    [][/\ \A s \in DOMAIN connections' \ DOMAIN connections :
              connections'[s].state = AWAITING_HANDSHAKE
       /\ \A s \in DOMAIN connections' \cap DOMAIN connections :
              LET old == connections[s].state
                  new == connections'[s].state
              IN /\ new = old \/ new = old + 1
                 /\ new <= AWAITING_ENCRYPTED_REQUEST
                 /\ new # old
                    => \E text \in sent' \ sent :
                          /\ sent' \ sent = {text}
                          /\ text.sock = s /\ text.wire = "clear"]_vars

\* a clear text, as a repeated handshake message is, was received after the
\* handshake and the connection is still awaiting encrypted requests
C36_Witness ==
    /\ outcome.op = "encrypted" /\ outcome.raised
    /\ outcome.msg.wire = "clear"
    /\ outcome.sock \in DOMAIN connections
    /\ connections[outcome.sock].state = AWAITING_ENCRYPTED_REQUEST

\* C37: whenever a commands_loaded or commands_load_failed callback can be
\* delivered for a project, every active request of that project with the
\* callback's entity type has had its configurations registered, so the
\* callback never meets a request whose list of sources is unset.
C37_RegisteredBeforeCommands ==
    \A call \in BagToSet(pendingCommands) :
        \A i \in 1..Len(active_requests) :
            (/\ active_requests[i].request.project_id = call.project_id
             /\ active_requests[i].request.entity_type = call.entity_type)
            => active_requests[i].registered

\* commands are being loaded for a project with two active requests, both
\* registered
C37_Witness ==
    /\ Len(active_requests) = 2
    /\ \E call \in BagToSet(pendingCommands) :
          \A i \in 1..2 :
              /\ active_requests[i].request.project_id = call.project_id
              /\ active_requests[i].request.entity_type = call.entity_type
              /\ active_requests[i].registered

\* C38: the cache never holds an invalid configuration; it changes only when
\* configurations_loaded delivers a list of valid configurations for a
\* project, and then that project's entry becomes the whole delivered list,
\* the one registered with the project's requests; commands_loaded,
\* commands_load_failed and the execution of requests leave it as it is.
C38_CacheHoldsValidDeliveries ==
    [][/\ \A p \in DOMAIN cached_configs' :
              \A i \in 1..Len(cached_configs'[p]) : cached_configs'[p][i].valid
       /\ cached_configs' # cached_configs
          => /\ loads' = loads + 1
             /\ \E p \in Projects : \E configs \in ConfigLists(p, loads') :
                   /\ BagIn(p, pendingConfigs)
                   /\ cached_configs' =
                          [q \in DOMAIN cached_configs \cup {p} |->
                              IF q = p THEN configs ELSE cached_configs[q]]
                   /\ \A i \in 1..Len(active_requests') :
                          active_requests'[i].request.project_id = p
                          => SourceList(active_requests'[i].configurations)
                                 = configs]_vars

\* the entry of a project was replaced by a later delivery of the largest
\* size
C38_Witness ==
    \E p \in DOMAIN cached_configs :
        /\ Len(cached_configs[p]) = MaxConfigs
        /\ cached_configs[p][1].gen = MaxLoads
        /\ Len(active_requests) > 0

\* C39: a message is handled by the connection registered under its socket
\* id and by no other: it changes no other connection and sends on no other
\* socket; a message for a socket id without a connection raises, sends
\* nothing and changes no connection; and connectionClosed for a socket
\* removes that socket's entry from the table and leaves every other
\* connection as it was.
C39_RoutedBySocketId ==
    [][/\ IsMessageStep
          => /\ outcome'.sock \in DOMAIN connections
             /\ DOMAIN connections' = DOMAIN connections
             /\ \A c \in DOMAIN connections \ {outcome'.sock} :
                    connections'[c] = connections[c]
             /\ \A text \in sent' \ sent : text.sock = outcome'.sock
       /\ outcome'.op = "unknown_socket"
          => /\ outcome'.sock \notin DOMAIN connections
             /\ outcome'.raised
             /\ sent' = sent /\ replies' = {}
             /\ connections' = connections
       /\ \A s \in AllSockets :
              (sock[s] # "closed" /\ sock'[s] = "closed")
              => /\ DOMAIN connections' = DOMAIN connections \ {s}
                 /\ \A c \in DOMAIN connections' :
                        connections'[c] = connections[c]]_vars

\* a text arrived for a socket the server holds no connection for, while
\* the connection of another socket is past the handshake
C39_Witness ==
    /\ outcome.op = "unknown_socket"
    /\ \E c \in DOMAIN connections :
          /\ c # outcome.sock
          /\ connections[c].state = AWAITING_ENCRYPTED_REQUEST

====
